---- MODULE Spec2Model ----
(***************************************************************************)
(* Model of the admission-control core of the captcha service:             *)
(*   - internal/security/rate_limiter.go   RateLimiter and IPBlocker       *)
(*   - unnamed/part_001                    OptimizedRateLimiter            *)
(*   - unnamed/part_000                    AdaptiveLimiter                 *)
(*   - internal/security/security_service.go  SecurityService.CheckRequest *)
(*                                                                         *)
(* Time is a natural number of clock ticks.  SpecRL exercises the two rate *)
(* limiters with concurrent callers; SpecSec exercises the security        *)
(* service (admission pipeline, IP blocker, operator calls, cleanup);      *)
(* SpecAdmit exercises the admission path next to the adaptive limiter.    *)
(*                                                                         *)
(* The challenge side of the service is modelled next to it:               *)
(*   - internal/usecase/captcha_usecase.go  CaptchaUseCase                 *)
(*   - internal/captcha/click.go            InMemoryChallengeRepository    *)
(*   - internal/transport/grpc/captcha_service.go  gRPC front              *)
(*   - internal/websocket/websocket_service.go, http_server.go  sessions   *)
(* SpecCaptcha exercises the challenge lifecycle and the event stream,     *)
(* SpecValidator the answer validators on every decoded answer shape,      *)
(* SpecBehavior the behavior records the adaptive limiter hands out, and   *)
(* SpecWS the per-session event queues of the websocket service.           *)
(*                                                                         *)
(* The process around them:                                                *)
(*   - internal/server/server.go, unnamed/part_002  Server: ports, Stop    *)
(*   - internal/transport/grpc/captcha_service.go   BalancerClient         *)
(*   - internal/captcha/click.go, swipe.go          target placement       *)
(* SpecSessions exercises the lifetime of websocket sessions, SpecPorts    *)
(* the choice of listening ports, SpecShutdown the steps of Server.Stop,   *)
(* SpecBalancer the registration stream to the balancer, SpecGenerator the *)
(* placement of targets, and SpecRepo the challenge store with concurrent  *)
(* callers, step by step.                                                  *)
(*                                                                         *)
(* Concurrent callers, one lock step at a time:                            *)
(* SpecCreate exercises CreateChallenge against the cap on active          *)
(* challenges, SpecLocks the mutexes the security service's operations     *)
(* take, SpecBlocker the IP blocker's maps under its read-write lock, and  *)
(* SpecReply the replies the websocket handlers address to a session.      *)
(***************************************************************************)
EXTENDS Integers, Sequences, FiniteSets, TLC

\* ------------------------------------------------------------ bounds
\* Largest clock value explored by SpecRL.
MaxTime == 3
\* Largest number of completed Allow calls kept in the call log.
MaxCalls == 4
\* Largest per-key limit passed to Allow.
MaxLimit == 2
\* Largest window (in ticks) passed to Allow; the smallest is 2.
MaxWindow == 3

Procs == {"p1", "p2"}
Keys == {"ip1", "ip2"}
\* The key the concurrent callers of SpecRL contend on.
RLKeys == {"ip1"}
NoOwner == "none"

VARIABLES
    now,            \* the clock (time.Now())
    impl,           \* which limiter object is under test: "RateLimiter" | "Optimized"
    redisCfg,       \* rl.redis != nil
    redisUp,        \* the external store answers
    limit, window,  \* the (limit, window) every Allow call of the run passes
    mu,             \* owner of RateLimiter.mu / OptimizedRateLimiter.mu
    localLimits,    \* RateLimiter.localLimits: key -> LocalLimit
    optLimits,      \* OptimizedRateLimiter.localLimits: key -> OptimizedLocalLimit
    redisCounters,  \* external store: key -> [count, expireAt] (INCR/EXPIRE keys)
    redisZ,         \* external store: key -> [scores, expireAt] (sorted sets)
    pc,             \* per caller: position inside Allow
    fr,             \* per caller: the locals of the Allow call in flight
    calls,          \* history: the completed Allow calls, in order of return
    cfgMaxFailed,   \* config.IPBlockingConfig.MaxFailedAttempts
    localBlocks,    \* IPBlocker.localBlocks: ip -> BlockInfo
    failedAttempts, \* IPBlocker.failedAttempts: ip -> AttemptInfo
    redisBlocks,    \* external store: blocked_ip:<ip> hashes
    redisAttempts,  \* external store: failed_attempts:<ip> counters
    requestPatterns,\* BotDetector.requestPatterns: ip -> RequestPattern
    behaviors,      \* AdaptiveLimiter.behaviors: ip -> UserBehavior
    stats,          \* SecurityService.stats
    last,           \* history: the last CheckRequest call and what it did
    challenges,     \* InMemoryChallengeRepository.challenges: id -> Challenge
    nextID,         \* how many challenge ids uuid.New() has handed out
    streamOpen,     \* a MakeEventStream call is running its receive loop
    capLast,        \* history: the last captcha call and what it returned
    probe,          \* the (challenge, attempt) pair handed to validateAnswer, and its verdict
    behaviorRefs,   \* the maps and slices the UserBehavior records point to, per ip
    held,           \* the UserBehavior a caller of the adaptive limiter was handed
    connections,    \* WebSocketService.connections: connID -> Connection
    wsCount,        \* how many connection ids and events have been made
    wsLast,         \* history: the last websocket call that returned
    sessions,       \* WebSocketService.connections, the lifetime of each: connID -> Connection
    sessLast,       \* history: the last session-lifetime call and what it did
    srv,            \* server.Server: configuration, ports, lifecycle
    bal,            \* BalancerClient and the director at the far end of its stream
    gen,            \* the target list a challenge generator is building
    repo,           \* InMemoryChallengeRepository with its callers' positions
    locks           \* the mutexes of the security subsystems, their holders, the callers' positions

rlVars == <<now, impl, redisCfg, redisUp, limit, window, mu, localLimits,
            optLimits, redisCounters, redisZ, pc, fr, calls>>

\* The variables only the SpecRL callers use.
rlOnlyVars == <<impl, window, mu, optLimits, redisZ, pc, fr, calls>>

secVars == <<cfgMaxFailed, localBlocks, failedAttempts, redisBlocks, redisAttempts,
             requestPatterns, behaviors, stats, last>>

\* The challenge store, the event stream and the validator.
capVars == <<challenges, nextID, streamOpen, capLast, probe>>

\* Everything outside the admission subsystem.
\* The reference-typed part of the adaptive limiter and its caller's handle.
behVars == <<behaviorRefs, held>>

\* The websocket service.
wsVars == <<connections, wsCount, wsLast>>

\* The session lifetimes, the server, the balancer client, the generators and
\* the challenge repository with concurrent callers.
sysVars == <<sessions, sessLast, srv, bal, gen, repo, locks>>

extVars == <<capVars, behVars, wsVars, sysVars>>

vars == <<rlVars, secVars, extVars>>

\* ------------------------------------------------------------ maps
EmptyMap == [k \in {} |-> 0]
MapPut(m, k, v) == [x \in (DOMAIN m) \cup {k} |-> IF x = k THEN v ELSE m[x]]
MapDel(m, k) == [x \in (DOMAIN m) \ {k} |-> m[x]]

RECURSIVE SeqFilterAfter(_, _)
\* The elements of s that are strictly after cutoff, in order.
SeqFilterAfter(s, cutoff) ==
    IF s = <<>> THEN <<>>
    ELSE IF Head(s) > cutoff
         THEN <<Head(s)>> \o SeqFilterAfter(Tail(s), cutoff)
         ELSE SeqFilterAfter(Tail(s), cutoff)

\* ------------------------------------------------------------ mutex
\* sync.Mutex.Lock() proceeds only when nobody holds the mutex.
TryLockBroken(m) == TRUE
TryLock(m) == m = NoOwner

\* ------------------------------------------------------------ RateLimiter
\* rate_limiter.go:81  now.Sub(localLimit.LastReset) >= window
windowExpiredStrict(ll, t, win) == t - ll.LastReset > win
windowExpired(ll, t, win) == t - ll.LastReset >= win

\* rate_limiter.go:83-87  the fresh LocalLimit of a new window
newLocalLimit(t, win) == [Count |-> 1, LastReset |-> t, Window |-> win]

\* rate_limiter.go:92  localLimit.Count >= limit
limitReached(ll, lim) == ll.Count >= lim

\* rate_limiter.go:74-99 as one critical section: [allowed, limits]
checkLocalLimit(m, key, t, lim, win) ==
    IF key \notin DOMAIN m \/ windowExpired(m[key], t, win)
    THEN [allowed |-> TRUE, limits |-> MapPut(m, key, newLocalLimit(t, win))]
    ELSE IF limitReached(m[key], lim)
         THEN [allowed |-> FALSE, limits |-> m]
         ELSE [allowed |-> TRUE,
               limits |-> MapPut(m, key, [m[key] EXCEPT !.Count = @ + 1])]

\* rate_limiter.go:49-71  INCR key; EXPIRE key window; allowed iff count <= limit
checkRedisLimit(rc, key, t, lim, win) ==
    LET live == key \in DOMAIN rc /\ t < rc[key].expireAt
        cnt == (IF live THEN rc[key].count ELSE 0) + 1
    IN [allowed |-> cnt <= lim, err |-> FALSE,
        store |-> MapPut(rc, key, [count |-> cnt, expireAt |-> t + win])]

\* rate_limiter.go:36-45  what Allow does with the external store's answer:
\* a decision without error ends the call, an error falls through to the
\* local limiter.
afterRedisPropagate(r) == [done |-> TRUE, allowed |-> r.allowed, err |-> r.err]
afterRedis(r) ==
    IF r.err = FALSE
    THEN [done |-> TRUE, allowed |-> r.allowed, err |-> FALSE]
    ELSE [done |-> FALSE, allowed |-> FALSE, err |-> FALSE]

\* ------------------------------------------------------------ OptimizedRateLimiter
\* part_001:69-74  the bucket created on a key's first access
newOptLimit(t, win) == [Count |-> 0, LastReset |-> t, Window |-> win, requests |-> <<>>]

\* part_001:88-96  drop the requests that are not after now - window
validRequests(ol, t, win) == SeqFilterAfter(ol.requests, t - win)

\* part_001:99  len(ol.requests) < limit
underLimit(reqs, lim) == Len(reqs) < lim

\* part_001:100-102  record the accepted request
recordRequest(ol, t) ==
    [ol EXCEPT !.requests = Append(@, t), !.Count = Len(ol.requests) + 1,
               !.LastReset = t]

\* part_001:83-107  [allowed, ol]
checkSlidingWindow(ol, t, lim, win) ==
    LET trimmed == [ol EXCEPT !.requests = validRequests(ol, t, win)]
    IN IF underLimit(trimmed.requests, lim)
       THEN [allowed |-> TRUE, ol |-> recordRequest(trimmed, t)]
       ELSE [allowed |-> FALSE, ol |-> trimmed]

\* part_001:61-80 as one critical section: [allowed, limits]
checkOptimizedLocalLimit(m, key, t, lim, win) ==
    LET ol == IF key \in DOMAIN m THEN m[key] ELSE newOptLimit(t, win)
        r == checkSlidingWindow(ol, t, lim, win)
    IN [allowed |-> r.allowed, limits |-> MapPut(m, key, r.ol)]

\* time.Time.Unix() of clock value t: seconds since 1970.
UnixBase == 1700000000
UnixSeconds(t) == UnixBase + t

\* part_001:118  string(cutoff) of an int64 is the one-character string of
\* that code point, not its decimal representation.  The store reads the
\* argument as a score bound: only the characters '0'..'9' (code points
\* 48..57) are numbers.
scoreBoundOfInt64(n) ==
    IF n \in 48..57 THEN [ok |-> TRUE, value |-> n - 48]
    ELSE [ok |-> FALSE, value |-> 0]

\* part_001:110-145  pipeline ZREMRANGEBYSCORE, ZCARD, ZADD, EXPIRE; every
\* command of the pipeline is executed, Exec reports the first failed one.
optCheckRedisLimit(rz, key, t, lim, win) ==
    LET live == key \in DOMAIN rz /\ t < rz[key].expireAt
        cur == IF live THEN rz[key].scores ELSE <<>>
        bound == scoreBoundOfInt64(UnixSeconds(t - win))
        kept == IF bound.ok THEN SeqFilterAfter(cur, bound.value) ELSE cur
        count == Len(kept)
    IN [allowed |-> bound.ok /\ count < lim, err |-> ~bound.ok,
        store |-> MapPut(rz, key, [scores |-> Append(kept, UnixSeconds(t)),
                                   expireAt |-> t + win])]

\* ------------------------------------------------------------ Allow, step by step
InFlight == Cardinality({q \in Procs : pc[q] # "idle"})

IdleFrame == [key |-> "ip1", t |-> 0, ok |-> FALSE, incr |-> FALSE, failed |-> FALSE]

\* The external store's answer to the limiter under test; a store that is
\* down answers every command with an error and changes nothing.
redisAnswer(key) ==
    IF ~redisUp
    THEN [allowed |-> FALSE, err |-> TRUE, kv |-> redisCounters, z |-> redisZ]
    ELSE IF impl = "RateLimiter"
         THEN LET r == checkRedisLimit(redisCounters, key, now, limit, window)
              IN [allowed |-> r.allowed, err |-> r.err, kv |-> r.store, z |-> redisZ]
         ELSE LET r == optCheckRedisLimit(redisZ, key, now, limit, window)
              IN [allowed |-> r.allowed, err |-> r.err, kv |-> redisCounters, z |-> r.store]

\* rate_limiter.go:34-46, part_001:46-58  Allow up to the local limiter.
StartAllow(p, k) ==
    /\ pc[p] = "idle"
    /\ Len(calls) + InFlight < MaxCalls
    /\ LET r == redisAnswer(k)
           a == afterRedis(r)
           failed == redisCfg /\ r.err
       IN /\ fr' = [fr EXCEPT ![p] = [key |-> k, t |-> 0, ok |-> FALSE, incr |-> FALSE,
                                      failed |-> failed]]
          /\ IF redisCfg
             THEN /\ redisCounters' = r.kv
                  /\ redisZ' = r.z
                  /\ IF a.done
                     THEN /\ calls' = Append(calls, [key |-> k, t |-> now, ok |-> a.allowed,
                                                     err |-> a.err, path |-> "redis",
                                                     failed |-> failed])
                          /\ pc' = pc
                     ELSE /\ calls' = calls
                          /\ pc' = [pc EXCEPT ![p] = "lock"]
             ELSE /\ pc' = [pc EXCEPT ![p] = "lock"]
                  /\ UNCHANGED <<redisCounters, redisZ, calls>>
    /\ UNCHANGED <<now, impl, redisCfg, redisUp, limit, window, mu, localLimits, optLimits>>
    /\ UNCHANGED <<secVars, extVars>>

\* rate_limiter.go:75-94  mu.Lock(); read the clock and the bucket; start a
\* new window, or compare the count with the limit.
EnterBasic(p) ==
    /\ pc[p] = "lock"
    /\ impl = "RateLimiter"
    /\ TryLock(mu)
    /\ mu' = p
    /\ pc' = [pc EXCEPT ![p] = "locked"]
    /\ LET k == fr[p].key IN
       IF k \notin DOMAIN localLimits \/ windowExpired(localLimits[k], now, window)
       THEN /\ localLimits' = MapPut(localLimits, k, newLocalLimit(now, window))
            /\ fr' = [fr EXCEPT ![p].t = now, ![p].ok = TRUE, ![p].incr = FALSE]
       ELSE /\ fr' = [fr EXCEPT ![p].t = now,
                                ![p].ok = ~limitReached(localLimits[k], limit),
                                ![p].incr = ~limitReached(localLimits[k], limit)]
            /\ UNCHANGED localLimits
    /\ UNCHANGED <<now, impl, redisCfg, redisUp, limit, window, optLimits,
                   redisCounters, redisZ, calls>>
    /\ UNCHANGED <<secVars, extVars>>

\* part_001:62-99  mu.Lock(); read the clock; get or create the bucket; trim
\* it; compare its length with the limit.
EnterOpt(p) ==
    /\ pc[p] = "lock"
    /\ impl = "Optimized"
    /\ TryLock(mu)
    /\ mu' = p
    /\ pc' = [pc EXCEPT ![p] = "locked"]
    /\ LET k == fr[p].key
           ol == IF k \in DOMAIN optLimits THEN optLimits[k] ELSE newOptLimit(now, window)
           valid == validRequests(ol, now, window)
       IN /\ optLimits' = MapPut(optLimits, k, [ol EXCEPT !.requests = valid])
          /\ fr' = [fr EXCEPT ![p].t = now, ![p].ok = underLimit(valid, limit),
                              ![p].incr = underLimit(valid, limit)]
    /\ UNCHANGED <<now, impl, redisCfg, redisUp, limit, window, localLimits,
                   redisCounters, redisZ, calls>>
    /\ UNCHANGED <<secVars, extVars>>

\* rate_limiter.go:97 localLimit.Count++ / part_001:100-102 append now; then
\* the deferred mu.Unlock() and the return of (decision, nil).
Leave(p) ==
    /\ pc[p] = "locked"
    /\ LET k == fr[p].key IN
       /\ localLimits' = IF impl = "RateLimiter" /\ fr[p].incr /\ k \in DOMAIN localLimits
                         THEN [localLimits EXCEPT ![k].Count = @ + 1]
                         ELSE localLimits
       /\ optLimits' = IF impl = "Optimized" /\ fr[p].incr /\ k \in DOMAIN optLimits
                       THEN [optLimits EXCEPT ![k] = recordRequest(@, fr[p].t)]
                       ELSE optLimits
    /\ mu' = NoOwner
    /\ calls' = Append(calls, [key |-> fr[p].key, t |-> fr[p].t, ok |-> fr[p].ok,
                               err |-> FALSE, path |-> "local", failed |-> fr[p].failed])
    /\ pc' = [pc EXCEPT ![p] = "idle"]
    /\ fr' = [fr EXCEPT ![p] = IdleFrame]
    /\ UNCHANGED <<now, impl, redisCfg, redisUp, limit, window, redisCounters, redisZ>>
    /\ UNCHANGED <<secVars, extVars>>

\* rate_limiter.go:106-111  the limits whose window has not passed
expiredLimitsRemoved(m, t) ==
    [k \in {x \in DOMAIN m : ~(t - m[x].LastReset >= m[x].Window)} |-> m[k]]

\* rate_limiter.go:102-112  RateLimiter.CleanupExpiredLimits
CleanupExpiredLimits ==
    /\ impl = "RateLimiter"
    /\ TryLock(mu)
    /\ localLimits' = expiredLimitsRemoved(localLimits, now)
    /\ UNCHANGED <<now, impl, redisCfg, redisUp, limit, window, mu, optLimits,
                   redisCounters, redisZ, pc, fr, calls>>
    /\ UNCHANGED <<secVars, extVars>>

\* part_001:160-170  OptimizedRateLimiter.cleanupExpiredLimits
cleanupExpiredLimits ==
    /\ impl = "Optimized"
    /\ TryLock(mu)
    /\ optLimits' = [k \in {x \in DOMAIN optLimits :
                              ~(now - optLimits[x].LastReset >= optLimits[x].Window * 2)}
                     |-> optLimits[k]]
    /\ UNCHANGED <<now, impl, redisCfg, redisUp, limit, window, mu, localLimits,
                   redisCounters, redisZ, pc, fr, calls>>
    /\ UNCHANGED <<secVars, extVars>>

\* The clock advances.
TickRL ==
    /\ now < MaxTime
    /\ now' = now + 1
    /\ UNCHANGED <<impl, redisCfg, redisUp, limit, window, mu, localLimits, optLimits,
                   redisCounters, redisZ, pc, fr, calls>>
    /\ UNCHANGED <<secVars, extVars>>

\* The external store becomes unreachable, or reachable again.
RedisFlip ==
    /\ redisCfg
    /\ redisUp' = ~redisUp
    /\ UNCHANGED <<now, impl, redisCfg, limit, window, mu, localLimits, optLimits,
                   redisCounters, redisZ, pc, fr, calls>>
    /\ UNCHANGED <<secVars, extVars>>

\* ------------------------------------------------------------ IPBlocker
\* Time in the security service is counted in minutes.
Minute == 1
Hour == 60

\* The configurations the tests build the service with.
MaxFailedChoices == {3}

SecIPs == {"ip1"}

\* RequestsPerMinute of the configurations the service is built with.
SecLimits == {1}

\* rate_limiter.go:232, 369  the failure count at which an ip is blocked
BlockThreshold == 5

\* The external store answers (ib.redis != nil and the call returns no error).
redisOK == redisCfg /\ redisUp

\* rate_limiter.go:241-247, 370-376, 406-412  a block record
newBlockInfo(reason, t, dur, attempts) ==
    [Reason |-> reason, BlockedAt |-> t, ExpiresAt |-> t + dur, Attempts |-> attempts]

\* rate_limiter.go:191  time.Now().After(blockInfo.ExpiresAt)
blockExpired(b, t) == t > b.ExpiresAt

\* rate_limiter.go:325-353  EXISTS blocked_ip:<ip>; the stored expires_at is not read
checkRedisBlock(rb, ip) == ip \in DOMAIN rb

\* rate_limiter.go:171-198  IsBlocked: the answer and the state it leaves
IsBlocked(s, ip, t) ==
    IF redisOK
    THEN [blocked |-> checkRedisBlock(s.rBlocks, ip), s |-> s]
    ELSE IF ip \notin DOMAIN s.blocks
         THEN [blocked |-> FALSE, s |-> s]
         ELSE IF blockExpired(s.blocks[ip], t)
              THEN [blocked |-> FALSE, s |-> [s EXCEPT !.blocks = MapDel(@, ip)]]
              ELSE [blocked |-> TRUE, s |-> s]

\* rate_limiter.go:232, 369  count >= 5
shouldBlockStrict(count) == count > BlockThreshold
shouldBlock(count) == count >= BlockThreshold

\* The live value of the store's failure counter (the key expires after an hour).
redisAttemptCount(ra, ip, t) ==
    IF ip \in DOMAIN ra /\ t < ra[ip].expireAt THEN ra[ip].count ELSE 0

\* rate_limiter.go:356-381  INCR, EXPIRE 1h, block at the threshold
recordRedisAttempt(s, ip, reason, t) ==
    LET count == redisAttemptCount(s.rAttempts, ip, t) + 1
        s1 == [s EXCEPT !.rAttempts =
                   MapPut(@, ip, [count |-> count, expireAt |-> t + Hour])]
    IN IF shouldBlock(count)
       THEN [s1 EXCEPT !.rBlocks = MapPut(@, ip, newBlockInfo(reason, t, Hour, count))]
       ELSE s1

\* rate_limiter.go:211-236, 405-415  the local record, block at the threshold
recordLocalAttempt(s, ip, reason, t) ==
    LET a == IF ip \in DOMAIN s.attempts
             THEN [s.attempts[ip] EXCEPT !.Count = @ + 1, !.LastSeen = t]
             ELSE [Count |-> 1, LastSeen |-> t]
        s1 == [s EXCEPT !.attempts = MapPut(@, ip, a)]
    IN IF shouldBlock(a.Count)
       THEN [s1 EXCEPT !.blocks = MapPut(@, ip, newBlockInfo(reason, t, Hour, a.Count))]
       ELSE s1

\* rate_limiter.go:201-237  RecordFailedAttempt
RecordFailedAttempt(s, ip, reason, t) ==
    IF redisOK THEN recordRedisAttempt(s, ip, reason, t)
               ELSE recordLocalAttempt(s, ip, reason, t)

\* rate_limiter.go:240-264  BlockIP: in the store when it answers, else locally
blockerBlockIP(s, ip, reason, dur, t) ==
    IF redisOK
    THEN [s EXCEPT !.rBlocks = MapPut(@, ip, newBlockInfo(reason, t, dur, 0))]
    ELSE [s EXCEPT !.blocks = MapPut(@, ip, newBlockInfo(reason, t, dur, 0))]

\* rate_limiter.go:267-283, 399-402  UnblockIP: DEL in the store when it
\* answers, else both local maps
blockerUnblockIP(s, ip) ==
    IF redisOK
    THEN [s EXCEPT !.rBlocks = MapDel(@, ip)]
    ELSE [s EXCEPT !.blocks = MapDel(@, ip), !.attempts = MapDel(@, ip)]

\* rate_limiter.go:303-322  CleanupExpiredBlocks
blockerCleanup(s, t) ==
    LET keepB == {ip \in DOMAIN s.blocks : ~blockExpired(s.blocks[ip], t)}
        keepA == {ip \in DOMAIN s.attempts : ~(t - s.attempts[ip].LastSeen > Hour)}
    IN [s EXCEPT !.blocks = [ip \in keepB |-> s.blocks[ip]],
                 !.attempts = [ip \in keepA |-> s.attempts[ip]]]

\* The failure count of ip in the store RecordFailedAttempt writes to.
attemptCount(s, ip, t) ==
    IF redisOK THEN redisAttemptCount(s.rAttempts, ip, t)
    ELSE IF ip \in DOMAIN s.attempts THEN s.attempts[ip].Count ELSE 0

\* rate_limiter.go:34-46  Allow as one call of the pipeline
Allow(s, key, t, lim, win) ==
    LET r == IF redisUp THEN checkRedisLimit(s.rCounters, key, t, lim, win)
             ELSE [allowed |-> FALSE, err |-> TRUE, store |-> s.rCounters]
        a == afterRedis(r)
        l == checkLocalLimit(s.limits, key, t, lim, win)
    IN IF redisCfg /\ a.done
       THEN [allowed |-> a.allowed, s |-> [s EXCEPT !.rCounters = r.store]]
       ELSE [allowed |-> l.allowed, s |-> [s EXCEPT !.limits = l.limits]]

\* ------------------------------------------------------------ BotDetector
\* Scores are in hundredths.  The user-agent, frequency, response-time and
\* path sub-scores depend on the request's text and timing; their sum is an
\* input of the request.
OtherScores == {0, 50}

\* security_service.go:127  the literal 0.7
HighBotScore == 70

\* bot_detector.go:70-92  the pattern of an ip after one more request
updatePattern(pm, ip, isError, t) ==
    LET p == IF ip \in DOMAIN pm THEN pm[ip]
             ELSE [RequestCount |-> 0, ErrorCount |-> 0, LastRequest |-> t]
    IN [RequestCount |-> p.RequestCount + 1,
        ErrorCount |-> p.ErrorCount + (IF isError THEN 1 ELSE 0),
        LastRequest |-> t]

\* bot_detector.go:257-277  errorRate > 0.5 -> 0.4, > 0.2 -> 0.2
analyzeErrorPatterns(p) ==
    IF p.RequestCount = 0 THEN 0
    ELSE IF 2 * p.ErrorCount > p.RequestCount THEN 40
    ELSE IF 5 * p.ErrorCount > p.RequestCount THEN 20
    ELSE 0

\* bot_detector.go:107-146  the sum of the sub-scores
calculateBotScore(p, other) == other + analyzeErrorPatterns(p)

\* bot_detector.go:65-105  AnalyzeRequest: the score and the state it leaves
botAnalyzeRequest(s, ip, isError, other, t) ==
    LET p == updatePattern(s.patterns, ip, isError, t)
    IN [score |-> calculateBotScore(p, other),
        s |-> [s EXCEPT !.patterns = MapPut(@, ip, p)]]

\* bot_detector.go:399-410  CleanupExpiredPatterns
CleanupExpiredPatterns(pm, t) ==
    LET keep == {ip \in DOMAIN pm : ~(t - pm[ip].LastRequest > Hour)}
    IN [ip \in keep |-> pm[ip]]

\* ------------------------------------------------------------ AdaptiveLimiter
\* Trust scores are in thousandths.  The limiter is configured with the
\* service's RequestsPerMinute as its base limit and the default multipliers
\* and thresholds; it analyses from the AnalysisAfter-th request on and keeps
\* DecayPermille of the old score.
AnalysisAfter == 1
DecayPermille == 0
MaxAnalyzed == 1

\* part_000:72-74  TrustedUserMultiplier 2.0, SuspiciousUserDivisor 4.0, BotUserLimit 5
TrustedUserMultiplier == 2
SuspiciousUserDivisor == 4
BotUserLimit == 5

\* part_000:78-80  the classification thresholds 0.8, 0.3, 0.1
TrustedUserThreshold == 800
SuspiciousUserThreshold == 300
BotDetectionThreshold == 100

\* part_000:178-197  the mean of the five sub-scores of one analysis lies
\* between 0.1 and 0.86; it is an input of the request.
TrustSignals == {100, 300, 500, 860}

\* part_000:92-95  baseLimits
baseLimits(base) ==
    [trusted |-> base * TrustedUserMultiplier, normal |-> base,
     suspicious |-> base \div SuspiciousUserDivisor, bot |-> BotUserLimit]

\* part_000:110-119  the behavior created on an ip's first request
newBehavior == [TotalRequests |-> 0, TrustScore |-> 500,
                IsRegularUser |-> FALSE, IsSuspicious |-> FALSE, IsBot |-> FALSE]

\* part_000:371-385  classifyUser
classifyUser(b) ==
    [b EXCEPT !.IsRegularUser = b.TrustScore >= TrustedUserThreshold,
              !.IsBot = b.TrustScore < TrustedUserThreshold
                        /\ b.TrustScore <= BotDetectionThreshold,
              !.IsSuspicious = b.TrustScore < TrustedUserThreshold
                               /\ b.TrustScore > BotDetectionThreshold
                               /\ b.TrustScore <= SuspiciousUserThreshold]

\* part_000:178-211  analyzeBehaviorPatterns: smooth the score, classify
analyzeBehaviorPatterns(b, signal) ==
    classifyUser([b EXCEPT !.TrustScore =
        (b.TrustScore * DecayPermille + signal * (1000 - DecayPermille)) \div 1000])

\* part_000:101-152  AnalyzeRequest
adaptiveAnalyzeRequest(bm, ip, signal) ==
    LET b0 == IF ip \in DOMAIN bm THEN bm[ip] ELSE newBehavior
        b1 == [b0 EXCEPT !.TotalRequests = @ + 1]
    IN MapPut(bm, ip, IF b1.TotalRequests >= AnalysisAfter
                      THEN analyzeBehaviorPatterns(b1, signal) ELSE b1)

\* part_000:155-175  GetAdaptiveLimit
GetAdaptiveLimit(bm, ip, base) ==
    IF ip \notin DOMAIN bm THEN baseLimits(base).normal
    ELSE IF bm[ip].IsBot THEN baseLimits(base).bot
    ELSE IF bm[ip].TrustScore >= TrustedUserThreshold THEN baseLimits(base).trusted
    ELSE IF bm[ip].TrustScore <= SuspiciousUserThreshold THEN baseLimits(base).suspicious
    ELSE baseLimits(base).normal

\* The most requests of one source SpecBehavior lets the limiter observe.
MaxObserved == 3

\* part_000:116-119  the maps and slices of a new behavior: empty maps, and
\* slices of length and capacity 0 (no backing array yet).
newRefs ==
    [UserAgents |-> EmptyMap, RequestPaths |-> EmptyMap, RequestTimes |-> <<>>,
     backing |-> 0, cap |-> 0]

\* part_000:137-138  m[k]++
mapIncr(m, k) == MapPut(m, k, IF k \in DOMAIN m THEN m[k] + 1 ELSE 1)

\* part_000:139  append(behavior.RequestTimes, now): a full slice moves to a new
\* backing array of twice the capacity.
appendTime(r, t) ==
    IF Len(r.RequestTimes) = r.cap
    THEN [r EXCEPT !.RequestTimes = Append(@, t), !.backing = @ + 1,
                   !.cap = IF @ = 0 THEN 1 ELSE 2 * @]
    ELSE [r EXCEPT !.RequestTimes = Append(@, t)]

\* part_000:110-123,137-139  AnalyzeRequest, the maps and the history slice
recordPatterns(refs, ip, ua, path, t) ==
    LET r0 == IF ip \in DOMAIN refs THEN refs[ip] ELSE newRefs
    IN  MapPut(refs, ip, appendTime([r0 EXCEPT !.UserAgents = mapIncr(@, ua),
                                              !.RequestPaths = mapIncr(@, path)], t))

\* No UserBehavior is in a caller's hands.
NoHandle ==
    [op |-> "none", ip |-> "", from |-> "", copy |-> newBehavior,
     backing |-> 0, len |-> 0, leaked |-> FALSE]

\* part_000:151  AnalyzeRequest returns the pointer stored in al.behaviors
handleOfAnalyze(bm, refs, ip) ==
    [op |-> "handed", ip |-> ip, from |-> "AnalyzeRequest", copy |-> bm[ip],
     backing |-> refs[ip].backing, len |-> Len(refs[ip].RequestTimes), leaked |-> FALSE]

\* part_000:421-432  GetUserBehavior: behaviorCopy := *behavior copies the
\* struct, so the scalar fields are the caller's own while the map fields and
\* the slice headers still point to the limiter's maps and backing arrays.
GetUserBehavior(bm, refs, ip) ==
    IF ip \in DOMAIN bm
    THEN [op |-> "handed", ip |-> ip, from |-> "GetUserBehavior", copy |-> bm[ip],
          backing |-> refs[ip].backing, len |-> Len(refs[ip].RequestTimes),
          leaked |-> FALSE]
    ELSE NoHandle

\* The ways a caller can write through the record it holds.
Mutations == {"TrustScore", "UserAgents", "RequestPaths", "RequestTimes"}
\* The value the caller writes.
Forged == 999

\* A write through the handle h: returns the limiter's state after it,
\* [bm, refs, h].  A scalar write lands in the struct the handle points to; a
\* map write lands in the map object, which the copy shares; an element write
\* lands in the backing array the handle's slice header names.
mutate(bm, refs, h, field) ==
    CASE field = "TrustScore" ->
            IF h.from = "AnalyzeRequest"
            THEN [bm |-> [bm EXCEPT ![h.ip].TrustScore = Forged], refs |-> refs,
                  h |-> [h EXCEPT !.copy.TrustScore = Forged]]
            ELSE [bm |-> bm, refs |-> refs, h |-> [h EXCEPT !.copy.TrustScore = Forged]]
      [] field = "UserAgents" ->
            [bm |-> bm, refs |-> [refs EXCEPT ![h.ip].UserAgents = MapPut(@, "forged", Forged)],
             h |-> h]
      [] field = "RequestPaths" ->
            [bm |-> bm, refs |-> [refs EXCEPT ![h.ip].RequestPaths = MapPut(@, "forged", Forged)],
             h |-> h]
      [] field = "RequestTimes" ->
            IF h.len >= 1 /\ h.backing = refs[h.ip].backing
            THEN [bm |-> bm, refs |-> [refs EXCEPT ![h.ip].RequestTimes[1] = Forged], h |-> h]
            ELSE [bm |-> bm, refs |-> refs, h |-> h]

\* NewAdaptiveLimiter: no behavior recorded, nothing handed out.
IdleBehavior ==
    /\ behaviorRefs = EmptyMap
    /\ held = NoHandle

\* ------------------------------------------------------------ SecurityService
MaxRequests == 2
MaxFailures == 3
MaxHours == 1
MaxBlocks == 1

\* security_service.go:168, security_endpoints.go, security_middleware.go:93
\* the durations BlockIP is called with
BlockDurations == {0, Hour}

\* The state of the subsystems CheckRequest works on.
secState ==
    [blocks |-> localBlocks, attempts |-> failedAttempts,
     rBlocks |-> redisBlocks, rAttempts |-> redisAttempts,
     limits |-> localLimits, rCounters |-> redisCounters,
     patterns |-> requestPatterns, stats |-> stats]

\* security_service.go:79-88  the request counted, the result still allowed
startRequest(s) ==
    [s |-> [s EXCEPT !.stats.TotalRequests = @ + 1], allowed |-> TRUE, done |-> FALSE,
     deniedAt |-> "none", trace |-> <<>>, limitUsed |-> 0, score |-> 0]

\* security_service.go:102, 117, 138, 160  a denying stage returns the result
returnsNever(denied) == FALSE
returnsAfter(denied) == denied

\* What a stage's verdict does to the result.
verdict(c, stage, denied) ==
    [c EXCEPT !.allowed = c.allowed /\ ~denied,
              !.deniedAt = IF denied /\ c.deniedAt = "none" THEN stage ELSE @,
              !.done = returnsAfter(denied),
              !.trace = Append(@, stage)]

\* security_service.go:90-103  stage 1: the blocker
stageBlocker(c, ip, t) ==
    IF c.done THEN c
    ELSE LET b == IsBlocked(c.s, ip, t)
             s1 == IF b.blocked THEN [b.s EXCEPT !.stats.BlockedRequests = @ + 1] ELSE b.s
         IN verdict([c EXCEPT !.s = s1], "blocker", b.blocked)

\* security_service.go:106  the limit the rate-limit stage passes to Allow
rateLimitFor(ip, rpm) == rpm

\* security_service.go:105-118  stage 2: the rate limit
stageRate(c, ip, t, rpm) ==
    IF c.done THEN c
    ELSE LET a == Allow(c.s, ip, t, rateLimitFor(ip, rpm), Minute)
             s1 == IF a.allowed THEN a.s
                   ELSE [a.s EXCEPT !.stats.RateLimitedRequests = @ + 1]
         IN verdict([c EXCEPT !.s = s1, !.limitUsed = rateLimitFor(ip, rpm)],
                    "rate", ~a.allowed)

\* security_service.go:127  botScore.Score > 0.7
isHighBot(score) == score > HighBotScore

\* security_service.go:133  the failure recorded for a detected bot
recordBotFailureSkipped(s, ip, t) == s
recordBotFailure(s, ip, t) == RecordFailedAttempt(s, ip, "Bot behavior detected", t)

\* security_service.go:120-142  stage 3: the bot score
stageBot(c, ip, t, isError, other) ==
    IF c.done THEN c
    ELSE LET a == botAnalyzeRequest(c.s, ip, isError, other, t)
             high == isHighBot(a.score)
             s1 == IF high
                   THEN [recordBotFailure(a.s, ip, t) EXCEPT !.stats.BotDetections = @ + 1]
                   ELSE a.s
         IN verdict([c EXCEPT !.s = s1, !.score = a.score], "bot", high)

\* security_service.go:144-162  stage 4: the failure of an erroneous request
\* and the second look at the blocker
stageError(c, ip, t, isError) ==
    IF c.done \/ ~isError THEN c
    ELSE LET s1 == RecordFailedAttempt(c.s, ip, "Request error", t)
             b == IsBlocked(s1, ip, t)
             s2 == IF b.blocked THEN [b.s EXCEPT !.stats.BlockedRequests = @ + 1] ELSE b.s
         IN verdict([c EXCEPT !.s = s2], "error", b.blocked)

\* security_service.go:78-165  CheckRequest
checkRequest(s, ip, t, rpm, isError, other) ==
    stageError(stageBot(stageRate(stageBlocker(startRequest(s), ip, t), ip, t, rpm),
                        ip, t, isError, other), ip, t, isError)

\* The parts of the state a request changed.
touchedBy(s0, s1) ==
    (IF s0.blocks # s1.blocks \/ s0.rBlocks # s1.rBlocks THEN {"blocks"} ELSE {})
    \cup (IF s0.attempts # s1.attempts \/ s0.rAttempts # s1.rAttempts
          THEN {"attempts"} ELSE {})
    \cup (IF s0.limits # s1.limits \/ s0.rCounters # s1.rCounters THEN {"rate"} ELSE {})
    \cup (IF s0.patterns # s1.patterns THEN {"bot"} ELSE {})

NoRequest ==
    [ip |-> "none", isError |-> FALSE, allowed |-> TRUE, deniedAt |-> "none",
     trace |-> <<>>, touched |-> {}, limitUsed |-> 0, adaptive |-> 0, score |-> 0,
     failuresBefore |-> 0, failuresAfter |-> 0]

EmptyStats ==
    [TotalRequests |-> 0, BlockedRequests |-> 0, RateLimitedRequests |-> 0,
     BotDetections |-> 0, IPBlocks |-> 0]

\* ------------------------------------------------------------ challenges and the validator
\* Largest clock value explored by SpecCaptcha.
MaxCapTime == 2
\* config.ChallengeTimeout, in ticks.
ChallengeTimeout == 1
\* config.MaxActiveChallenges.
MaxActiveChallenges == 1
\* How many challenge ids one run hands out.
MaxChallenges == 2

\* A Go value held in an interface{}: its dynamic type and its content.
\*   "strings" []string, "strmap" map[string]string,
\*   "swipes" []map[string]interface{} (each element reduced to its "direction"),
\*   "float" float64, "anys" []interface{}, "anymap" map[string]interface{},
\*   "nil" the nil interface.
GoValue(kind, seq, map, num) == [kind |-> kind, seq |-> seq, map |-> map, num |-> num]
Strings(s) == GoValue("strings", s, EmptyMap, 0)
StrMap(m) == GoValue("strmap", <<>>, m, 0)
Swipes(s) == GoValue("swipes", s, EmptyMap, 0)
Float(n) == GoValue("float", <<>>, EmptyMap, n)
NilValue == GoValue("nil", <<>>, EmptyMap, 0)

\* captcha_usecase.go:260,265,287,292,314,319,360,365  v.(T) in its comma-ok form:
\* the cast fails exactly when the dynamic type differs.
castFailsNever(v, kind) == FALSE
castFails(v, kind) == v.kind # kind

Verdict(valid, confidence) == [panic |-> FALSE, valid |-> valid, confidence |-> confidence]
\* A run-time panic (integer division by zero) instead of a verdict.
Panic == [panic |-> TRUE, valid |-> FALSE, confidence |-> 0]

\* How many positions of the attempt hold the oracle's element
\* (captcha_usecase.go:273-278, correctCount).
positionMatches(expected, actual) ==
    Cardinality({i \in 1..Len(expected) : i <= Len(actual) /\ actual[i] = expected[i]})

\* The length of the longest prefix of the attempt that equals the oracle's.
prefixMatches(expected, actual) ==
    Cardinality({k \in 1..Len(expected) :
                    \A i \in 1..k : i <= Len(actual) /\ actual[i] = expected[i]})

\* A click validator that scores the matching prefix only.
validateClickAnswerPrefix(expected, actual) ==
    IF castFails(expected, "strings") THEN Verdict(FALSE, 0)
    ELSE IF castFails(actual, "strings") THEN Verdict(FALSE, 0)
    ELSE IF Len(expected.seq) # Len(actual.seq) THEN Verdict(FALSE, 20)
    ELSE IF Len(expected.seq) = 0 THEN Panic
    ELSE Verdict(expected.seq = actual.seq,
                 (prefixMatches(expected.seq, actual.seq) * 100) \div Len(expected.seq))

\* captcha_usecase.go:259-283
validateClickAnswer(expected, actual) ==
    IF castFails(expected, "strings") THEN Verdict(FALSE, 0)
    ELSE IF castFails(actual, "strings") THEN Verdict(FALSE, 0)
    ELSE IF Len(expected.seq) # Len(actual.seq) THEN Verdict(FALSE, 20)
    ELSE IF Len(expected.seq) = 0 THEN Panic
    ELSE LET correctCount == Cardinality({i \in 1..Len(expected.seq) :
                                             actual.seq[i] = expected.seq[i]})
         IN  Verdict(correctCount = Len(expected.seq),
                     (correctCount * 100) \div Len(expected.seq))

\* captcha_usecase.go:286-310
validateDragDropAnswer(expected, actual) ==
    IF castFails(expected, "strmap") THEN Verdict(FALSE, 0)
    ELSE IF castFails(actual, "strmap") THEN Verdict(FALSE, 0)
    ELSE IF Cardinality(DOMAIN expected.map) # Cardinality(DOMAIN actual.map)
         THEN Verdict(FALSE, 20)
    ELSE IF DOMAIN expected.map = {} THEN Panic
    ELSE LET n == Cardinality(DOMAIN expected.map)
             correctCount == Cardinality({k \in DOMAIN expected.map :
                                 /\ k \in DOMAIN actual.map
                                 /\ actual.map[k] = expected.map[k]})
         IN  Verdict(correctCount = n, (correctCount * 100) \div n)

\* captcha_usecase.go:343-355  a gesture without a string "direction" is "".
validateSwipeGesture(expected, actual) ==
    /\ expected # ""
    /\ actual # ""
    /\ expected = actual

\* captcha_usecase.go:313-340
validateSwipeAnswer(expected, actual) ==
    IF castFails(expected, "swipes") THEN Verdict(FALSE, 0)
    ELSE IF castFails(actual, "swipes") THEN Verdict(FALSE, 0)
    ELSE IF Len(expected.seq) # Len(actual.seq) THEN Verdict(FALSE, 20)
    ELSE IF Len(expected.seq) = 0 THEN Panic
    ELSE LET correctCount == Cardinality({i \in 1..Len(expected.seq) :
                                 validateSwipeGesture(expected.seq[i], actual.seq[i])})
         IN  Verdict(correctCount = Len(expected.seq),
                     (correctCount * 100) \div Len(expected.seq))

\* captcha_usecase.go:358-383  scores are whole numbers; the expected score is
\* positive.  threshold = 0.8 * expected.
validateGameAnswer(expected, actual) ==
    IF castFails(expected, "float") THEN Verdict(FALSE, 0)
    ELSE IF castFails(actual, "float") THEN Verdict(FALSE, 0)
    ELSE IF actual.num * 10 >= expected.num * 8
         THEN LET confidence == (actual.num * 100) \div expected.num
              IN  Verdict(TRUE, IF confidence > 100 THEN 100 ELSE confidence)
    ELSE Verdict(FALSE, (actual.num * 50) \div expected.num)

\* captcha_usecase.go:241-256
validateAnswer(challenge, answer) ==
    CASE challenge.Type = "click" -> validateClickAnswer(challenge.Answer, answer)
      [] challenge.Type = "drag_drop" -> validateDragDropAnswer(challenge.Answer, answer)
      [] challenge.Type = "swipe" -> validateSwipeAnswer(challenge.Answer, answer)
      [] challenge.Type = "game" -> validateGameAnswer(challenge.Answer, answer)
      [] OTHER -> Verdict(FALSE, 0)

\* encoding/json into interface{} (captcha_usecase.go:392-394): arrays arrive as
\* []interface{}, objects as map[string]interface{}, numbers as float64.
jsonDecode(v) ==
    CASE v.kind \in {"strings", "swipes"} -> GoValue("anys", v.seq, EmptyMap, 0)
      [] v.kind = "strmap" -> GoValue("anymap", <<>>, v.map, 0)
      [] OTHER -> v

\* The oracle each generator returns for the family (click.go:311-339,
\* part_005:493-561, swipe.go:515-560): two targets, three pairs, one swipe.
OracleOf(type) ==
    CASE type = "click" -> Strings(<<"t1", "t2">>)
      [] type = "drag_drop" -> StrMap([a |-> "1", b |-> "2", c |-> "3"])
      [] type = "swipe" -> Swipes(<<"left">>)

\* captcha_usecase.go:184-188  the families determineChallengeType chooses from
ChallengeTypes == {"click", "drag_drop", "swipe"}

\* What a client may submit as an answer.
Attempts ==
    {Strings(<<"t1", "t2">>), Strings(<<"t1", "t3">>), Strings(<<"t1">>),
     StrMap([a |-> "1", b |-> "2", c |-> "3"]), StrMap([a |-> "1", b |-> "2", c |-> "9"]),
     Swipes(<<"left">>), Swipes(<<"">>), NilValue}

\* captcha_usecase.go:71-81
newChallenge(type, t) ==
    [Type |-> type, Answer |-> OracleOf(type), CreatedAt |-> t,
     ExpiresAt |-> t + ChallengeTimeout, Solved |-> FALSE]

\* click.go:1268-1282
GetActiveCount(chs, t) ==
    Cardinality({id \in DOMAIN chs : ~chs[id].Solved /\ chs[id].ExpiresAt > t})

\* click.go:1285-1298
CleanupExpired(chs, t) ==
    [id \in {i \in DOMAIN chs : ~(chs[i].ExpiresAt < t)} |-> chs[id]]

\* captcha_service.go:29-32  the handler wraps the usecase error with fmt.Errorf:
\* the error carries no status, and gRPC reports such an error as Unknown.
grpcCode(err) == IF err = "" THEN "OK" ELSE "Unknown"

\* captcha_usecase.go:51-89  returns [err, chs]
CreateChallenge(chs, id, type, t) ==
    IF GetActiveCount(chs, t) >= MaxActiveChallenges
    THEN [err |-> "maximum active challenges reached", chs |-> chs]
    ELSE [err |-> "", chs |-> MapPut(chs, id, newChallenge(type, t))]

\* captcha_usecase.go:100  time.Now().After(challenge.ExpiresAt)
challengeExpired(c, t) == t > c.ExpiresAt

\* captcha_usecase.go:110
alreadySolvedIgnored(c) == FALSE
alreadySolved(c) == c.Solved

Result(err, solved, confidence, error) ==
    [err |-> err, Solved |-> solved, ConfidencePercent |-> confidence, Error |-> error]

\* captcha_usecase.go:92-134  returns [res, chs]
ValidateChallenge(chs, id, answer, t) ==
    IF id \notin DOMAIN chs
    THEN [res |-> Result("failed to get challenge", FALSE, 0, ""), chs |-> chs]
    ELSE IF challengeExpired(chs[id], t)
    THEN [res |-> Result("", FALSE, 0, "challenge expired"), chs |-> chs]
    ELSE IF alreadySolved(chs[id])
    THEN [res |-> Result("", TRUE, 100, ""), chs |-> chs]
    ELSE LET v == validateAnswer(chs[id], answer)
         IN  [res |-> Result(IF v.panic THEN "panic" ELSE "", v.valid, v.confidence, ""),
              chs |-> IF v.valid
                      THEN [chs EXCEPT ![id] = [@ EXCEPT !.Solved = TRUE]]
                      ELSE chs]

\* What the client put into ClientEvent.Data.
Payloads ==
    {[json |-> FALSE, type |-> "", hasAnswer |-> FALSE, answer |-> NilValue],
     [json |-> TRUE, type |-> "click", hasAnswer |-> FALSE, answer |-> NilValue],
     [json |-> TRUE, type |-> "challenge_attempt", hasAnswer |-> FALSE, answer |-> NilValue]}
    \cup {[json |-> TRUE, type |-> "challenge_attempt", hasAnswer |-> TRUE, answer |-> a] :
            a \in {Strings(<<"t1", "t2">>), Strings(<<"t1">>), Swipes(<<"left">>)}}

\* The wire values of ClientEvent.EventType; "99" is a value outside the enum.
WireEventTypes == {"FRONTEND_EVENT", "CONNECTION_CLOSED", "BALANCER_EVENT", "99"}

\* captcha_service.go:74-85
convertEventType(eventType) ==
    CASE eventType = "FRONTEND_EVENT" -> "frontend_event"
      [] eventType = "CONNECTION_CLOSED" -> "connection_closed"
      [] eventType = "BALANCER_EVENT" -> "balancer_event"
      [] OTHER -> "frontend_event"

ServerEvent(type, dataType, valid, confidence) ==
    [Type |-> type, dataType |-> dataType, valid |-> valid, confidence |-> confidence]

\* captcha_usecase.go:386-432
processFrontendEvent(challenge, payload) ==
    IF payload.json /\ payload.type \in {"mouse_move", "click", "keypress"}
    THEN ServerEvent("send_client_data", "interaction_tracked", FALSE, 0)
    ELSE IF payload.json /\ payload.type = "challenge_attempt" /\ payload.hasAnswer
    THEN LET v == validateAnswer(challenge, jsonDecode(payload.answer))
         IN  ServerEvent("send_client_data", "challenge_result", v.valid, v.confidence)
    ELSE IF payload.json /\ payload.type \notin {"", "challenge_attempt"}
    THEN ServerEvent("send_client_data", "event_acknowledged", FALSE, 0)
    ELSE ServerEvent("send_client_data", "event_processed", FALSE, 0)

\* captcha_usecase.go:142-160  returns [err, event]
ProcessEvent(chs, id, type, payload) ==
    IF id \notin DOMAIN chs
    THEN [err |-> "failed to get challenge", event |-> ServerEvent("", "", FALSE, 0)]
    ELSE CASE type = "frontend_event" ->
                [err |-> "", event |-> processFrontendEvent(chs[id], payload)]
           [] type = "connection_closed" ->
                [err |-> "", event |-> ServerEvent("challenge_result", "connection_closed", FALSE, 0)]
           [] type = "balancer_event" ->
                [err |-> "", event |-> ServerEvent("send_client_data", "balancer_event_processed", FALSE, 0)]
           [] OTHER ->
                [err |-> "unknown event type", event |-> ServerEvent("", "", FALSE, 0)]

\* captcha_service.go:88-118  what goes onto the wire for a server event
sendServerEvent(event) ==
    CASE event.Type = "challenge_result" ->
            [kind |-> "ChallengeResult", dataType |-> "", valid |-> FALSE, confidence |-> 100]
      [] event.Type = "send_client_data" ->
            [kind |-> "SendClientData", dataType |-> event.dataType,
             valid |-> event.valid, confidence |-> event.confidence]
      [] OTHER -> [kind |-> "", dataType |-> "", valid |-> FALSE, confidence |-> 0]

NoReply == [kind |-> "", dataType |-> "", valid |-> FALSE, confidence |-> 0]

\* No captcha call has been made.
NoCall ==
    [op |-> "none", id |-> 0, at |-> 0, known |-> FALSE, err |-> "", code |-> "OK",
     Solved |-> FALSE, ConfidencePercent |-> 0, Error |-> "",
     expiresAt |-> 0, solvedBefore |-> FALSE, activeBefore |-> 0, mutated |-> FALSE,
     attempt |-> FALSE, malformed |-> FALSE, reply |-> NoReply,
     would |-> Result("", FALSE, 0, ""), streamAfter |-> FALSE]

NoProbe == [stage |-> "none", Type |-> "", Answer |-> NilValue, attempt |-> NilValue,
            verdict |-> Verdict(FALSE, 0)]

\* Nothing constructed yet.
\* made counts the connection ids handed out so far (uuid.New never repeats).
NoSessCall == [op |-> "none", conn |-> 0, at |-> 0, made |-> 0,
               before |-> EmptyMap, after |-> EmptyMap]
IdleSessions == sessions = EmptyMap /\ sessLast = NoSessCall
IdleServer == srv = [state |-> "none"]
IdleBalancer == bal = [state |-> "none"]
IdleGen == gen = [stage |-> "none"]
IdleRepo == repo = [state |-> "none"]
IdleLocks == locks = [state |-> "none"]
IdleSys == IdleSessions /\ IdleServer /\ IdleBalancer /\ IdleGen /\ IdleRepo /\ IdleLocks

\* usecase.NewCaptchaUsecase over an empty repository, no stream open.
IdleStore ==
    /\ challenges = EmptyMap
    /\ nextID = 0
    /\ streamOpen = FALSE
    /\ capLast = NoCall

IdleCaptcha ==
    /\ IdleStore
    /\ probe = NoProbe

\* ------------------------------------------------------------ websocket service
\* Capacity of Connection.Events (the code makes the channel with 100 slots).
QueueCapacity == 2
\* The send timeout in ticks (the code waits 5 seconds).
SendTimeout == 2
\* Largest clock value explored by SpecWS.
MaxWsTime == 2
\* How many connections and events one run makes.
MaxConns == 2
MaxEvents == 3

ClientIDs == {"A", "B"}

\* websocket_service.go:71-78  Events is the channel's buffer, oldest first;
\* Waiting holds the SendEvent calls blocked in their select.  Submitted and
\* Delivered are history: what the channel accepted and what the writer
\* goroutine wrote to the client, in order.
newConnection(clientID) ==
    [ClientID |-> clientID, Active |-> TRUE, Events |-> <<>>, Waiting |-> {},
     Submitted |-> <<>>, Delivered |-> <<>>]

\* A buffered channel send that does not block: room in the buffer.
chanHasRoom(conn) == Len(conn.Events) < QueueCapacity

\* case conn.Events <- event: the value goes to the tail of the buffer.
chanSend(conn, ev) ==
    [conn EXCEPT !.Events = Append(@, ev), !.Submitted = Append(@, ev)]

\* http_server.go:151  event := <-wsConn.Events takes the oldest value
chanRecvNewest(q) == q[Len(q)]
chanRecv(q) == Head(q)

\* The buffer after the value ev has been taken out of it.
chanRest(q, ev) == SelectSeq(q, LAMBDA e : e # ev)

\* websocket_service.go:107  <-time.After(5 * time.Second)
timerFiredAtOnce(start, t) == t >= start
timerFired(start, t) == t - start >= SendTimeout

\* websocket_service.go:134  the sessions a client broadcast addresses
addressedAll(conn, clientID) == conn.Active
addressed(conn, clientID) == conn.Active /\ conn.ClientID = clientID

\* websocket_service.go:129-142  the non-blocking select over every connection
BroadcastToClient(conns, clientID, ev) ==
    [c \in DOMAIN conns |->
        IF addressed(conns[c], clientID) /\ chanHasRoom(conns[c])
        THEN chanSend(conns[c], ev)
        ELSE conns[c]]

NoWsCall ==
    [op |-> "none", conn |-> 0, client |-> "", ev |-> 0, err |-> "",
     start |-> 0, at |-> 0, before |-> EmptyMap, after |-> EmptyMap]

\* NewWebSocketService
IdleWs ==
    /\ connections = EmptyMap
    /\ wsCount = [conns |-> 0, events |-> 0]
    /\ wsLast = NoWsCall

IdleExt == IdleCaptcha /\ IdleBehavior /\ IdleWs /\ IdleSys

\* rate_limiter.go:26-31, part_001:31-43  a fresh limiter
InitRL ==
    /\ now = 0
    /\ impl \in {"RateLimiter", "Optimized"}
    /\ redisCfg \in BOOLEAN
    /\ redisUp = redisCfg
    /\ limit \in 1..MaxLimit
    /\ window \in 2..MaxWindow
    /\ mu = NoOwner
    /\ localLimits = EmptyMap
    /\ optLimits = EmptyMap
    /\ redisCounters = EmptyMap
    /\ redisZ = EmptyMap
    /\ pc = [p \in Procs |-> "idle"]
    /\ fr = [p \in Procs |-> IdleFrame]
    /\ calls = <<>>
    /\ cfgMaxFailed = BlockThreshold
    /\ localBlocks = EmptyMap
    /\ failedAttempts = EmptyMap
    /\ redisBlocks = EmptyMap
    /\ redisAttempts = EmptyMap
    /\ requestPatterns = EmptyMap
    /\ behaviors = EmptyMap
    /\ stats = EmptyStats
    /\ last = NoRequest
    /\ IdleExt

NextRL ==
    \/ \E p \in Procs, k \in RLKeys : StartAllow(p, k)
    \/ \E p \in Procs : EnterBasic(p)
    \/ \E p \in Procs : EnterOpt(p)
    \/ \E p \in Procs : Leave(p)
    \/ CleanupExpiredLimits
    \/ cleanupExpiredLimits
    \/ TickRL
    \/ RedisFlip

SpecRL == InitRL /\ [][NextRL]_vars

\* ------------------------------------------------------------ security service steps
setSecState(s) ==
    /\ localBlocks' = s.blocks
    /\ failedAttempts' = s.attempts
    /\ redisBlocks' = s.rBlocks
    /\ redisAttempts' = s.rAttempts
    /\ localLimits' = s.limits
    /\ redisCounters' = s.rCounters
    /\ requestPatterns' = s.patterns
    /\ stats' = s.stats

\* security_service.go:78-165  one request through CheckRequest
CheckRequest(ip, isError, other) ==
    /\ stats.TotalRequests < MaxRequests
    /\ LET c == checkRequest(secState, ip, now, limit, isError, other)
           before == attemptCount(secState, ip, now)
           after == attemptCount(c.s, ip, now)
       IN /\ setSecState(c.s)
          /\ last' = [ip |-> ip, isError |-> isError, allowed |-> c.allowed,
                      deniedAt |-> c.deniedAt, trace |-> c.trace,
                      touched |-> touchedBy(secState, c.s),
                      limitUsed |-> c.limitUsed,
                      adaptive |-> GetAdaptiveLimit(behaviors, ip, limit),
                      score |-> c.score,
                      failuresBefore |-> before, failuresAfter |-> after]
    /\ UNCHANGED <<now, redisCfg, redisUp, limit, cfgMaxFailed, behaviors>>
    /\ UNCHANGED <<rlOnlyVars, extVars>>

\* rate_limiter.go:201-237  a caller records a failure with the blocker
RecordFailure(ip) ==
    /\ attemptCount(secState, ip, now) < MaxFailures
    /\ setSecState(RecordFailedAttempt(secState, ip, "Request error", now))
    /\ UNCHANGED <<now, redisCfg, redisUp, limit, cfgMaxFailed, behaviors, last>>
    /\ UNCHANGED <<rlOnlyVars, extVars>>

\* rate_limiter.go:171-198  a caller asks the blocker
IsBlockedCall(ip) ==
    /\ setSecState(IsBlocked(secState, ip, now).s)
    /\ UNCHANGED <<now, redisCfg, redisUp, limit, cfgMaxFailed, behaviors, last>>
    /\ UNCHANGED <<rlOnlyVars, extVars>>

\* security_service.go:168-179  BlockIP
BlockIP(ip, dur) ==
    /\ stats.IPBlocks < MaxBlocks
    /\ setSecState([blockerBlockIP(secState, ip, "manual", dur, now)
                       EXCEPT !.stats.IPBlocks = @ + 1])
    /\ UNCHANGED <<now, redisCfg, redisUp, limit, cfgMaxFailed, behaviors, last>>
    /\ UNCHANGED <<rlOnlyVars, extVars>>

\* security_service.go:182-184  UnblockIP
UnblockIP(ip) ==
    /\ setSecState(blockerUnblockIP(secState, ip))
    /\ UNCHANGED <<now, redisCfg, redisUp, limit, cfgMaxFailed, behaviors, last>>
    /\ UNCHANGED <<rlOnlyVars, extVars>>

\* security_service.go:221-230  Cleanup of the three subsystems
Cleanup ==
    /\ LET s1 == blockerCleanup(secState, now)
       IN setSecState([s1 EXCEPT !.limits = expiredLimitsRemoved(@, now),
                                  !.patterns = CleanupExpiredPatterns(@, now)])
    /\ UNCHANGED <<now, redisCfg, redisUp, limit, cfgMaxFailed, behaviors, last>>
    /\ UNCHANGED <<rlOnlyVars, extVars>>

\* part_000:101-152  the adaptive limiter observes a request
AdaptiveAnalyze(ip, signal) ==
    /\ ip \in DOMAIN behaviors => behaviors[ip].TotalRequests < MaxAnalyzed
    /\ behaviors' = adaptiveAnalyzeRequest(behaviors, ip, signal)
    /\ behaviorRefs' = recordPatterns(behaviorRefs, ip, "ua1", "/api/captcha", now)
    /\ UNCHANGED <<now, redisCfg, redisUp, limit, cfgMaxFailed, localBlocks,
                   failedAttempts, redisBlocks, redisAttempts, localLimits,
                   redisCounters, requestPatterns, stats, last>>
    /\ UNCHANGED <<rlOnlyVars, capVars, held, wsVars, sysVars>>

\* An hour passes.
TickSec ==
    /\ now \div Hour < MaxHours
    /\ now' = now + Hour
    /\ UNCHANGED <<redisCfg, redisUp, limit, cfgMaxFailed, localBlocks,
                   failedAttempts, redisBlocks, redisAttempts, localLimits,
                   redisCounters, requestPatterns, behaviors, stats, last>>
    /\ UNCHANGED <<rlOnlyVars, extVars>>

\* security_service.go:65-75  a fresh service
InitSec ==
    /\ now = 0
    /\ impl = "RateLimiter"
    /\ redisCfg \in BOOLEAN
    /\ redisUp \in BOOLEAN
    /\ redisUp => redisCfg
    /\ limit \in SecLimits
    /\ window = Minute
    /\ mu = NoOwner
    /\ localLimits = EmptyMap
    /\ optLimits = EmptyMap
    /\ redisCounters = EmptyMap
    /\ redisZ = EmptyMap
    /\ pc = [p \in Procs |-> "idle"]
    /\ fr = [p \in Procs |-> IdleFrame]
    /\ calls = <<>>
    /\ cfgMaxFailed \in MaxFailedChoices
    /\ localBlocks = EmptyMap
    /\ failedAttempts = EmptyMap
    /\ redisBlocks = EmptyMap
    /\ redisAttempts = EmptyMap
    /\ requestPatterns = EmptyMap
    /\ behaviors = EmptyMap
    /\ stats = EmptyStats
    /\ last = NoRequest
    /\ IdleExt

NextSec ==
    \/ \E ip \in SecIPs, isError \in BOOLEAN, other \in OtherScores :
          CheckRequest(ip, isError, other)
    \/ \E ip \in SecIPs : RecordFailure(ip)
    \/ \E ip \in SecIPs : IsBlockedCall(ip)
    \/ \E ip \in SecIPs, dur \in BlockDurations : BlockIP(ip, dur)
    \/ \E ip \in SecIPs : UnblockIP(ip)
    \/ Cleanup
    \/ TickSec

\* The service with its callers, the operator's BlockIP and UnblockIP, the
\* cleanup routine and the clock.  The external store is absent, reachable or
\* unreachable for the whole run.
SpecSec == InitSec /\ [][NextSec]_vars

\* The admission path alone, next to an adaptive limiter observing the same
\* sources: no operator intervenes.
NextAdmit ==
    \/ \E ip \in SecIPs, isError \in BOOLEAN, other \in OtherScores :
          CheckRequest(ip, isError, other)
    \/ \E ip \in SecIPs : RecordFailure(ip)
    \/ \E ip \in SecIPs : IsBlockedCall(ip)
    \/ \E ip \in SecIPs, signal \in TrustSignals : AdaptiveAnalyze(ip, signal)
    \/ Cleanup
    \/ TickSec

SpecAdmit == InitSec /\ [][NextAdmit]_vars

\* ------------------------------------------------------------ captcha service steps
\* The admission subsystem at rest: a fresh local-only service nobody calls.
IdleCore ==
    /\ impl = "RateLimiter"
    /\ redisCfg = FALSE
    /\ redisUp = FALSE
    /\ limit = 1
    /\ window = Minute
    /\ mu = NoOwner
    /\ localLimits = EmptyMap
    /\ optLimits = EmptyMap
    /\ redisCounters = EmptyMap
    /\ redisZ = EmptyMap
    /\ pc = [p \in Procs |-> "idle"]
    /\ fr = [p \in Procs |-> IdleFrame]
    /\ calls = <<>>
    /\ cfgMaxFailed = BlockThreshold
    /\ localBlocks = EmptyMap
    /\ failedAttempts = EmptyMap
    /\ redisBlocks = EmptyMap
    /\ redisAttempts = EmptyMap
    /\ requestPatterns = EmptyMap
    /\ behaviors = EmptyMap
    /\ stats = EmptyStats
    /\ last = NoRequest
    /\ IdleBehavior
    /\ IdleWs

IdleAdmission == IdleCore /\ IdleSys

\* Everything of the admission subsystem but the clock.
admissionVars == <<impl, redisCfg, redisUp, limit, window, mu, localLimits, optLimits,
                   redisCounters, redisZ, pc, fr, calls, secVars, behVars, wsVars, sysVars>>

\* captcha_service.go:27-39  CaptchaService.NewChallenge
NewChallenge(type) ==
    /\ nextID < MaxChallenges
    /\ LET r == CreateChallenge(challenges, nextID + 1, type, now)
       IN  /\ challenges' = r.chs
           /\ nextID' = IF r.err = "" THEN nextID + 1 ELSE nextID
           /\ capLast' = [NoCall EXCEPT !.op = "create", !.id = nextID + 1, !.at = now,
                             !.err = r.err, !.code = grpcCode(r.err),
                             !.activeBefore = GetActiveCount(challenges, now),
                             !.mutated = (r.chs # challenges)]
    /\ UNCHANGED <<now, streamOpen, probe, admissionVars>>

\* captcha_usecase.go:92-134  a caller of ValidateChallenge
Validate(id, answer) ==
    /\ LET r == ValidateChallenge(challenges, id, answer, now)
           known == id \in DOMAIN challenges
       IN  /\ challenges' = r.chs
           /\ capLast' = [NoCall EXCEPT !.op = "validate", !.id = id, !.at = now,
                             !.known = known, !.err = r.res.err,
                             !.Solved = r.res.Solved,
                             !.ConfidencePercent = r.res.ConfidencePercent,
                             !.Error = r.res.Error,
                             !.expiresAt = IF known THEN challenges[id].ExpiresAt ELSE 0,
                             !.solvedBefore = known /\ challenges[id].Solved,
                             !.mutated = (r.chs # challenges)]
    /\ UNCHANGED <<now, nextID, streamOpen, probe, admissionVars>>

\* captcha_service.go:42-43  a client opens the event stream
OpenEventStream ==
    /\ ~streamOpen
    /\ streamOpen' = TRUE
    /\ capLast' = [NoCall EXCEPT !.op = "open", !.at = now, !.streamAfter = TRUE]
    /\ UNCHANGED <<now, challenges, nextID, probe, admissionVars>>

\* captcha_service.go:45-70  one turn of the receive loop of MakeEventStream
MakeEventStream(id, wireType, payload) ==
    /\ streamOpen
    /\ LET r == ProcessEvent(challenges, id, convertEventType(wireType), payload)
           wire == sendServerEvent(r.event)
           failed == r.err # "" \/ wire.kind = ""
       IN  /\ streamOpen' = ~failed
           /\ capLast' = [NoCall EXCEPT !.op = "event", !.id = id, !.at = now,
                             !.known = id \in DOMAIN challenges, !.err = r.err,
                             !.attempt = /\ wireType = "FRONTEND_EVENT"
                                         /\ payload.json
                                         /\ payload.type = "challenge_attempt"
                                         /\ payload.hasAnswer,
                             !.malformed = \/ id \notin DOMAIN challenges
                                           \/ wireType \notin {"FRONTEND_EVENT",
                                                "CONNECTION_CLOSED", "BALANCER_EVENT"},
                             !.reply = IF failed THEN NoReply ELSE wire,
                             !.would = ValidateChallenge(challenges, id, payload.answer, now).res,
                             !.streamAfter = ~failed]
    /\ UNCHANGED <<now, challenges, nextID, probe, admissionVars>>

\* captcha_usecase.go:163-165, click.go:1285-1298
CleanupExpiredChallenges ==
    /\ challenges' = CleanupExpired(challenges, now)
    /\ challenges' # challenges
    /\ capLast' = [NoCall EXCEPT !.op = "cleanup", !.at = now]
    /\ UNCHANGED <<now, nextID, streamOpen, probe, admissionVars>>

\* A tick of the clock.  capLast describes the call that returned at the
\* current instant; it is forgotten when the clock moves on.
TickCap ==
    /\ now < MaxCapTime
    /\ now' = now + 1
    /\ capLast' = NoCall
    /\ UNCHANGED <<challenges, nextID, streamOpen, probe, admissionVars>>

InitCaptcha ==
    /\ now = 0
    /\ IdleAdmission
    /\ IdleCaptcha

\* The ids a client may name: every id handed out, and one that never was.
ClientIDsOfChallenges == 1..(nextID + 1)

\* Only a frontend event's Data is read (captcha_usecase.go:386-394); the other
\* event types are sent with empty Data.
PayloadsOf(wireType) ==
    IF convertEventType(wireType) = "frontend_event"
    THEN Payloads
    ELSE {p \in Payloads : ~p.json}

\* The families the issued challenges of this specification are drawn from: a
\* list oracle and a map oracle (every family is exercised by SpecValidator).
IssuedTypes == {"click", "drag_drop"}

NextCaptcha ==
    \/ \E type \in IssuedTypes : NewChallenge(type)
    \/ \E id \in ClientIDsOfChallenges, answer \in Attempts : Validate(id, answer)
    \/ OpenEventStream
    \/ \E id \in ClientIDsOfChallenges, wireType \in WireEventTypes :
          \E payload \in PayloadsOf(wireType) : MakeEventStream(id, wireType, payload)
    \/ CleanupExpiredChallenges
    \/ TickCap

\* The captcha service with its unary callers, one event stream at a time, the
\* cleanup routine and the clock.
SpecCaptcha == InitCaptcha /\ [][NextCaptcha]_vars

\* ------------------------------------------------------------ the validator alone
\* domain/challenge.go:23-28  the declared challenge types
DeclaredTypes == {"click", "drag_drop", "swipe", "game"}

\* The oracles a challenge may hold: the three the generators return, a game
\* score, and the map the game generator returns (part of no validator's cast).
Oracles ==
    {OracleOf(type) : type \in ChallengeTypes}
        \cup {Float(100), GoValue("anymap", <<>>, [expected_food |-> "3"], 0)}

\* The attempt values: typed answers, the same answers as JSON delivers them,
\* game scores, and nil.
ProbeAttempts ==
    Attempts \cup {jsonDecode(a) : a \in Attempts}
        \cup {Float(100), Float(80), Float(79), Float(150)}
        \cup {Strings(<<>>), StrMap(EmptyMap), Swipes(<<>>)}
        \cup {Strings(<<"t3", "t2">>), Strings(<<"t2", "t1">>)}

\* captcha_usecase.go:241-256  validateAnswer applied to the pair
ApplyValidateAnswer ==
    /\ probe.stage = "input"
    /\ probe' = [probe EXCEPT !.stage = "verdict",
                              !.verdict = validateAnswer(probe, probe.attempt)]
    /\ UNCHANGED <<now, challenges, nextID, streamOpen, capLast, admissionVars>>

InitValidator ==
    /\ now = 0
    /\ IdleAdmission
    /\ IdleStore
    /\ \E type \in DeclaredTypes, oracle \in Oracles, attempt \in ProbeAttempts :
          probe = [stage |-> "input", Type |-> type, Answer |-> oracle,
                   attempt |-> attempt, verdict |-> Verdict(FALSE, 0)]

NextValidator == ApplyValidateAnswer

\* validateAnswer as a function of (challenge type, oracle, attempt).
SpecValidator == InitValidator /\ [][NextValidator]_vars


\* ------------------------------------------------------------ rate limiter claims
\* Indices of the completed calls on key k that the local limiter decided.
LocalIdx(k) == {i \in 1..Len(calls) : calls[i].key = k /\ calls[i].path = "local"}
\* Position of call i among the local calls on key k.
Rank(k, i) == Cardinality({j \in LocalIdx(k) : j <= i})
\* Number of accepted calls on key k with from <= t < to.
AcceptedIn(k, from, to) ==
    Cardinality({i \in 1..Len(calls) : /\ calls[i].key = k /\ calls[i].ok
                                       /\ calls[i].t >= from /\ calls[i].t < to})
\* The same, counting only the calls the local limiter decided.
AcceptedLocalIn(k, from, to) ==
    Cardinality({i \in LocalIdx(k) : /\ calls[i].ok
                                     /\ calls[i].t >= from /\ calls[i].t < to})

\* C1 (as claimed): with no external store configured, in every interval
\* [s, s + window) at most `limit` calls on a key returned allow = true.
C1_SlidingWindowTight ==
    ~redisCfg =>
        \A k \in RLKeys, s \in 0..MaxTime : AcceptedIn(k, s, s + window) <= limit

\* The sliding-window variant (OptimizedRateLimiter) does keep the bound of C1,
\* with or without the external store.
OptimizedWindowTight ==
    impl = "Optimized" =>
        \A k \in RLKeys, s \in 0..MaxTime : AcceptedIn(k, s, s + window) <= limit

\* C2: under any interleaving of concurrent Allow calls on one key, the
\* accepted requests of the key's active window never exceed `limit`: the
\* bucket never counts more than `limit`, the accepted returns of the active
\* window that the bucket decided never outnumber what it counts, and every
\* decision of the sliding-window limiter is taken by its local bucket.
C2_StrictUnderContention ==
    /\ \A k \in DOMAIN localLimits :
          /\ localLimits[k].Count <= limit
          /\ AcceptedLocalIn(k, localLimits[k].LastReset, MaxTime + 1)
                <= localLimits[k].Count
    /\ \A k \in DOMAIN optLimits : Len(optLimits[k].requests) <= limit
    /\ impl = "Optimized" =>
          /\ \A i \in 1..Len(calls) : calls[i].path = "local"
          /\ \A k \in RLKeys : AcceptedIn(k, now - window + 1, MaxTime + 1) <= limit

\* Two callers contend for the last free slot of one key: one is inside the
\* critical section about to take it, the other waits for the mutex.
C2_Witness ==
    \E p, q \in Procs :
        /\ p # q /\ pc[p] = "locked" /\ pc[q] = "lock"
        /\ fr[p].key = fr[q].key /\ fr[p].incr
        /\ fr[p].key \in DOMAIN localLimits
        /\ localLimits[fr[p].key].Count + 1 = limit

\* C3: on the local limiter the first `limit` calls of a key are allowed, the
\* (limit+1)-th is denied while it falls inside the window of the first, and
\* a call made once a whole window has elapsed since the previous calls is
\* allowed.
C3_RateDenyThenRecover ==
    \A k \in RLKeys : \A i \in LocalIdx(k) :
        /\ Rank(k, i) <= limit => calls[i].ok
        /\ Rank(k, i) = limit + 1 =>
              \A f \in LocalIdx(k) :
                  ((\A m \in LocalIdx(k) : f <= m) /\ calls[i].t < calls[f].t + window)
                      => ~calls[i].ok
        /\ \A j \in LocalIdx(k) :
              (/\ j < i
               /\ calls[i].t >= calls[j].t + window
               /\ \A m \in LocalIdx(k) : ~(j < m /\ m < i))
                  => calls[i].ok

\* The scenario of the rate-limiter tests: limit calls allowed and one denied
\* at the same instant, then a call a window later allowed.
C3_Witness ==
    /\ ~redisCfg /\ impl = "RateLimiter"
    /\ Len(calls) = limit + 2
    /\ \A i \in 1..limit : calls[i].ok /\ calls[i].t = calls[1].t
    /\ ~calls[limit + 1].ok /\ calls[limit + 1].t = calls[1].t
    /\ calls[limit + 2].ok /\ calls[limit + 2].t >= calls[1].t + window

\* C4: Allow never returns an error, and a call whose external-store check
\* failed is decided by the local limiter.
C4_FallbackToLocal ==
    /\ \A i \in 1..Len(calls) :
          /\ ~calls[i].err
          /\ calls[i].failed => calls[i].path = "local"
    /\ \A p \in Procs : fr[p].failed => pc[p] \in {"lock", "locked"}

\* During an outage of the configured store the local limiter both allowed
\* and denied calls.
C4_Witness ==
    /\ redisCfg /\ ~redisUp
    /\ \E i, j \in 1..Len(calls) :
          /\ calls[i].failed /\ calls[i].path = "local" /\ calls[i].ok
          /\ calls[j].failed /\ calls[j].path = "local" /\ ~calls[j].ok

\* ------------------------------------------------------------ security service claims
\* The time of the last failure the blocker's counter holds for ip.
lastFailureAt(ip) ==
    IF redisOK
    THEN IF ip \in DOMAIN redisAttempts THEN redisAttempts[ip].expireAt - Hour ELSE 0
    ELSE IF ip \in DOMAIN failedAttempts THEN failedAttempts[ip].LastSeen ELSE 0

\* C5: with maxFailedAttempts = N configured, isBlocked(X) is false while
\* fewer than N failures are recorded for X, and true within the block
\* duration once exactly N are recorded.
C5_BlockerThreshold ==
    \A ip \in SecIPs :
        LET n == attemptCount(secState, ip, now)
            blocked == IsBlocked(secState, ip, now).blocked
        IN /\ n < cfgMaxFailed => ~blocked
           /\ (n = cfgMaxFailed /\ now - lastFailureAt(ip) < Hour) => blocked

\* C6: isBlocked(ip) is true only for a block record that exists and has not
\* expired.  Stated in the form hardest to refute: a record whose expiry
\* lies strictly in the past never denies.
C6_BlockedOnlyIfUnexpired ==
    \A ip \in SecIPs :
        IsBlocked(secState, ip, now).blocked =>
            LET m == IF redisOK THEN redisBlocks ELSE localBlocks
            IN ip \in DOMAIN m /\ m[ip].ExpiresAt >= now

PipelineOrder == <<"blocker", "rate", "bot", "error">>

IsPrefix(a, b) == Len(a) <= Len(b) /\ \A i \in 1..Len(a) : a[i] = b[i]

\* C7: the stages of a request run in the order blocker, rate limit, bot
\* score, error recording; the stage that denies is the last one that runs,
\* and the state of the later stages is as it was before the request.
C7_StagesInOrderStopAtDeny ==
    last.ip # "none" =>
        /\ last.trace # <<>> /\ IsPrefix(last.trace, PipelineOrder)
        /\ last.allowed <=> last.deniedAt = "none"
        /\ last.deniedAt # "none" => last.trace[Len(last.trace)] = last.deniedAt
        /\ last.deniedAt = "none" => Len(last.trace) = (IF last.isError THEN 4 ELSE 3)
        /\ last.deniedAt = "blocker" => last.touched = {}
        /\ last.deniedAt = "rate" => last.touched \subseteq {"blocks", "rate"}
        /\ last.deniedAt = "bot" => last.failuresAfter = last.failuresBefore + 1

C7_Witness ==
    /\ last.deniedAt = "rate" /\ last.isError
    /\ last.trace = <<"blocker", "rate">>
    /\ last.ip \in DOMAIN requestPatterns

C9_HighBotDeniedAndRecorded ==
    (last.ip # "none" /\ Len(last.trace) >= 3 /\ last.score > HighBotScore) =>
        /\ ~last.allowed
        /\ last.deniedAt = "bot"
        /\ last.failuresAfter = last.failuresBefore + 1

C9_Witness ==
    /\ last.deniedAt = "bot" /\ last.score > HighBotScore
    /\ last.failuresAfter = last.failuresBefore + 1
    /\ last.failuresAfter > 1

\* C10: the rate-limit stage checks the request against the limit the
\* adaptive limiter assigns to the ip's classification.
C10_RateStageUsesAdaptiveLimit ==
    (last.ip # "none" /\ Len(last.trace) >= 2) => last.limitUsed = last.adaptive

\* ------------------------------------------------------------ adaptive limiter and its callers
BehaviorIPs == {"ip1"}
ObservedAgents == {"ua1", "ua2"}

\* Everything the adaptive limiter and its callers leave alone.
behaviorFrame == <<rlVars, cfgMaxFailed, localBlocks, failedAttempts, redisBlocks,
                   redisAttempts, requestPatterns, stats, last, capVars, wsVars, sysVars>>

\* part_000:101-152  AnalyzeRequest; the caller keeps the returned pointer
AnalyzeRequest(ip, ua, signal) ==
    /\ ip \in DOMAIN behaviors => behaviors[ip].TotalRequests < MaxObserved
    /\ behaviors' = adaptiveAnalyzeRequest(behaviors, ip, signal)
    /\ behaviorRefs' = recordPatterns(behaviorRefs, ip, ua, "/api/captcha", now)
    /\ held' = handleOfAnalyze(behaviors', behaviorRefs', ip)
    /\ UNCHANGED behaviorFrame

\* part_000:421-432  a caller reads the behavior of ip
GetUserBehaviorCall(ip) ==
    /\ held' = GetUserBehavior(behaviors, behaviorRefs, ip)
    /\ held' # held
    /\ UNCHANGED <<behaviors, behaviorRefs, behaviorFrame>>

\* The caller writes through the record it was handed.
MutateHeld(field) ==
    /\ held.op \in {"handed", "mutated"}
    /\ LET r == mutate(behaviors, behaviorRefs, held, field)
       IN  /\ behaviors' = r.bm
           /\ behaviorRefs' = r.refs
           /\ held' = [r.h EXCEPT !.op = "mutated",
                                  !.leaked = (r.bm # behaviors \/ r.refs # behaviorRefs)]
    /\ held' # held
    /\ UNCHANGED behaviorFrame

InitBehavior ==
    /\ now = 0
    /\ IdleAdmission
    /\ IdleCaptcha

NextBehavior ==
    \/ \E ip \in BehaviorIPs, ua \in ObservedAgents, signal \in TrustSignals :
          AnalyzeRequest(ip, ua, signal)
    \/ \E ip \in BehaviorIPs : GetUserBehaviorCall(ip)
    \/ \E field \in Mutations : MutateHeld(field)

\* The adaptive limiter with a caller that keeps and writes the records it gets.
SpecBehavior == InitBehavior /\ [][NextBehavior]_vars

\* ------------------------------------------------------------ websocket service steps
\* Everything the websocket service leaves alone.
wsFrame == <<impl, redisCfg, redisUp, limit, window, mu, localLimits, optLimits,
             redisCounters, redisZ, pc, fr, calls, secVars, capVars, behVars, sysVars>>

\* The process has not died of a panic.
Running == wsLast.op # "panic"

\* websocket_service.go:66-83, http_server.go:82-103  a client connects
CreateConnection(clientID) ==
    /\ Running
    /\ wsCount.conns < MaxConns
    /\ connections' = MapPut(connections, wsCount.conns + 1, newConnection(clientID))
    /\ wsCount' = [wsCount EXCEPT !.conns = @ + 1]
    /\ wsLast' = [NoWsCall EXCEPT !.op = "connect", !.conn = wsCount.conns + 1,
                                  !.client = clientID, !.at = now]
    /\ UNCHANGED <<now, wsFrame>>

\* websocket_service.go:95-110  SendEvent up to its select: the lookup fails,
\* the channel accepts the event at once, or the caller blocks.
SendEvent(c) ==
    /\ Running
    /\ wsCount.events < MaxEvents
    /\ wsCount' = [wsCount EXCEPT !.events = @ + 1]
    /\ LET ev == wsCount.events + 1
           call == [NoWsCall EXCEPT !.op = "send", !.conn = c, !.ev = ev,
                                    !.start = now, !.at = now]
       IN  IF c \notin DOMAIN connections \/ ~connections[c].Active
           THEN /\ wsLast' = [call EXCEPT !.err = "connection not found or inactive"]
                /\ UNCHANGED connections
           ELSE IF chanHasRoom(connections[c])
           THEN /\ connections' = [connections EXCEPT ![c] = chanSend(@, ev)]
                /\ wsLast' = call
           ELSE /\ connections' = [connections EXCEPT
                        ![c].Waiting = @ \cup {[ev |-> ev, start |-> now]}]
                /\ wsLast' = [call EXCEPT !.op = "blocked"]
    /\ UNCHANGED <<now, wsFrame>>

\* websocket_service.go:107-108  the timer of a blocked SendEvent fires
SendTimesOut(c) ==
    /\ Running
    /\ c \in DOMAIN connections
    /\ \E w \in connections[c].Waiting :
          /\ timerFired(w.start, now)
          /\ connections' = [connections EXCEPT ![c].Waiting = @ \ {w}]
          /\ wsLast' = [NoWsCall EXCEPT !.op = "send", !.conn = c, !.ev = w.ev,
                                        !.err = "timeout sending event",
                                        !.start = w.start, !.at = now,
                                        !.before = connections, !.after = connections']
    /\ UNCHANGED <<now, wsCount, wsFrame>>

\* websocket_service.go:129-142  BroadcastToClient under the read lock
BroadcastToClientCall(clientID) ==
    /\ Running
    /\ wsCount.events < MaxEvents
    /\ wsCount' = [wsCount EXCEPT !.events = @ + 1]
    /\ connections' = BroadcastToClient(connections, clientID, wsCount.events + 1)
    /\ wsLast' = [NoWsCall EXCEPT !.op = "broadcast", !.client = clientID,
                                  !.ev = wsCount.events + 1, !.at = now,
                                  !.before = connections, !.after = connections']
    /\ UNCHANGED <<now, wsFrame>>

\* http_server.go:143-164  the writer goroutine takes the next event off the
\* queue and writes it to the client; a blocked sender, if any, gets the slot.
WriteEvent(c) ==
    /\ Running
    /\ c \in DOMAIN connections
    /\ connections[c].Events # <<>>
    /\ LET conn == connections[c]
           ev == chanRecv(conn.Events)
           taken == [conn EXCEPT !.Events = chanRest(@, ev), !.Delivered = Append(@, ev)]
       IN  IF conn.Waiting = {}
           THEN /\ connections' = [connections EXCEPT ![c] = taken]
                /\ wsLast' = [NoWsCall EXCEPT !.op = "write", !.conn = c, !.ev = ev,
                                              !.at = now]
           ELSE \E w \in conn.Waiting :
                /\ connections' = [connections EXCEPT
                        ![c] = chanSend([taken EXCEPT !.Waiting = @ \ {w}], w.ev)]
                /\ wsLast' = [NoWsCall EXCEPT !.op = "send", !.conn = c, !.ev = w.ev,
                                              !.start = w.start, !.at = now,
                                              !.before = connections,
                                              !.after = connections']
    /\ UNCHANGED <<now, wsCount, wsFrame>>

\* websocket_service.go:145-154, http_server.go:166-170  the client is gone:
\* the channel is closed and the connection deleted; a sender still blocked on
\* the channel panics (send on closed channel).
CloseConnection(c) ==
    /\ Running
    /\ c \in DOMAIN connections
    /\ connections' = MapDel(connections, c)
    /\ wsLast' = [NoWsCall EXCEPT !.op = IF connections[c].Waiting = {}
                                         THEN "close" ELSE "panic",
                                  !.conn = c, !.at = now]
    /\ UNCHANGED <<now, wsCount, wsFrame>>

\* A tick of the clock.
TickWs ==
    /\ Running
    /\ now < MaxWsTime
    /\ now' = now + 1
    /\ UNCHANGED <<wsVars, wsFrame>>

InitWS ==
    /\ now = 0
    /\ IdleAdmission
    /\ IdleCaptcha

NextWS ==
    \/ \E clientID \in ClientIDs : CreateConnection(clientID)
    \/ \E c \in 1..MaxConns : SendEvent(c)
    \/ \E c \in 1..MaxConns : SendTimesOut(c)
    \/ \E clientID \in ClientIDs : BroadcastToClientCall(clientID)
    \/ \E c \in 1..MaxConns : WriteEvent(c)
    \/ \E c \in 1..MaxConns : CloseConnection(c)
    \/ TickWs

\* The websocket service with its senders, the per-connection writer
\* goroutines, disconnecting clients and the clock.
SpecWS == InitWS /\ [][NextWS]_vars

\* ------------------------------------------------------------ challenge claims
\* C11: once now >= c.expiresAt, every validate call on the stored challenge c,
\* with any answer, returns (false, 0, "expired").
C11_ExpiredAlwaysRejected ==
    (capLast.op = "validate" /\ capLast.known /\ capLast.at >= capLast.expiresAt)
        => /\ capLast.err = ""
           /\ ~capLast.Solved
           /\ capLast.ConfidencePercent = 0
           /\ capLast.Error = "challenge expired"

C13_ExhaustedWhenFull ==
    (capLast.op = "create" /\ capLast.activeBefore >= MaxActiveChallenges)
        => /\ capLast.err # ""
           /\ capLast.code = "ResourceExhausted"
           /\ ~capLast.mutated

\* C14: a FrontendEvent whose payload is {type:"challenge_attempt", answer} gets
\* the verdict validate would give for that challenge and answer (the expired
\* and the already-solved verdicts included), carried by a ChallengeResult event.
C14_AttemptEventScoredAsValidate ==
    (capLast.op = "event" /\ capLast.known /\ capLast.attempt)
        => /\ capLast.err = ""
           /\ capLast.reply.kind = "ChallengeResult"
           /\ capLast.reply.valid = capLast.would.Solved
           /\ capLast.reply.confidence = capLast.would.ConfidencePercent

\* C15: a malformed inbound event (unknown challenge, or a type outside the
\* enumeration) is answered with an Invalid result and the stream goes on.
C15_MalformedEventKeepsStream ==
    (capLast.op = "event" /\ capLast.malformed)
        => /\ capLast.streamAfter
           /\ capLast.reply.kind = "Invalid"

\* C16: for every challenge type, every oracle and every attempt value the
\* validator returns a verdict (it does not panic), with a confidence in
\* 0..100, and an attempt whose type differs from the oracle's yields (false, 0).
C16_ValidatorTotal ==
    probe.stage = "verdict"
        => /\ ~probe.verdict.panic
           /\ probe.verdict.confidence \in 0..100
           /\ (probe.attempt.kind # probe.Answer.kind
                  => probe.verdict = Verdict(FALSE, 0))

\* An ill-typed attempt (JSON array, map, number or nil) against the []string
\* oracle of a click challenge has been scored.
C16_Witness ==
    /\ probe.stage = "verdict"
    /\ probe.Type = "click"
    /\ probe.Answer = OracleOf("click")
    /\ probe.attempt.kind \in {"anys", "strmap", "float", "nil"}
    /\ probe.verdict = Verdict(FALSE, 0)

\* C17: a write through a SourceBehavior record obtained from the limiter's
\* read accessor (a scalar field, a user-agent or path map entry, a history
\* element) leaves the limiter's own state as it was.
C17_DefensiveCopy ==
    (held.op = "mutated" /\ held.from = "GetUserBehavior") => ~held.leaked

\* ------------------------------------------------------------ websocket claims
\* C18: a broadcast to client C appends the event to the queue of every active
\* session of C whose queue is not full, leaves full queues of C and the queues
\* of other clients as they were, and blocks on none of them.
C18_BroadcastToClientEffect ==
    wsLast.op = "broadcast" =>
        /\ DOMAIN wsLast.after = DOMAIN wsLast.before
        /\ \A c \in DOMAIN wsLast.before :
              LET b == wsLast.before[c]
                  a == wsLast.after[c]
              IN  /\ a.Waiting = b.Waiting
                  /\ IF /\ b.Active
                        /\ b.ClientID = wsLast.client
                        /\ Len(b.Events) < QueueCapacity
                     THEN a.Events = Append(b.Events, wsLast.ev)
                     ELSE a.Events = b.Events

\* A broadcast that reached one session of the client and skipped another
\* session of the same client whose queue was full.
C18_Witness ==
    /\ wsLast.op = "broadcast"
    /\ \E c1, c2 \in DOMAIN wsLast.before :
          /\ wsLast.before[c1].ClientID = wsLast.client
          /\ wsLast.before[c2].ClientID = wsLast.client
          /\ wsLast.after[c1].Events = Append(wsLast.before[c1].Events, wsLast.ev)
          /\ Len(wsLast.before[c2].Events) = QueueCapacity
          /\ wsLast.after[c2].Events = wsLast.before[c2].Events

\* C19: a directed send blocks only while the session's queue is full; if the
\* queue stays full, the send returns the timeout error, no sooner than
\* SendTimeout after it began, and its event is not enqueued; a blocked send
\* returns without error only when the writer has freed a slot.
C19_FullQueueSendTimesOut ==
    /\ \A c \in DOMAIN connections :
          connections[c].Waiting # {} => Len(connections[c].Events) = QueueCapacity
    /\ (wsLast.op = "send" /\ wsLast.before # EmptyMap) =>
          LET b == wsLast.before[wsLast.conn]
              a == wsLast.after[wsLast.conn]
              enqueued == \E i \in 1..Len(a.Submitted) : a.Submitted[i] = wsLast.ev
          IN  /\ Len(b.Events) = QueueCapacity
              /\ IF Len(a.Delivered) = Len(b.Delivered)
                 THEN /\ wsLast.err = "timeout sending event"
                      /\ wsLast.at - wsLast.start >= SendTimeout
                      /\ a.Events = b.Events
                      /\ ~enqueued
                 ELSE /\ wsLast.err = ""
                      /\ enqueued

\* A directed send that found the queue full and timed out.
C19_Witness ==
    /\ wsLast.op = "send"
    /\ wsLast.err = "timeout sending event"
    /\ wsLast.at - wsLast.start >= SendTimeout
    /\ Len(wsLast.after[wsLast.conn].Events) = QueueCapacity

\* C20: for every session, what the client has been sent, followed by what is
\* still queued, is exactly what the session's queue accepted, in that order.
C20_DeliveredInSubmissionOrder ==
    \A c \in DOMAIN connections :
        connections[c].Delivered \o connections[c].Events = connections[c].Submitted

\* A session whose client has been sent two events, after the queue held both.
C20_Witness ==
    \E c \in DOMAIN connections :
        /\ Len(connections[c].Delivered) >= 2
        /\ connections[c].Delivered = connections[c].Submitted
        /\ wsLast.op = "write"
\* ------------------------------------------------------------ session lifetime
\* time.Hour in the ticks of SpecSessions (one tick is half an hour).
IdleLimit == 2
\* Largest clock value explored by SpecSessions.
MaxSessTime == 4
\* How many sessions one run of SpecSessions creates.
MaxSessions == 3

lifeFrame == <<impl, redisCfg, redisUp, limit, window, mu, localLimits, optLimits,
               redisCounters, redisZ, pc, fr, calls, secVars, capVars, behVars, wsVars,
               srv, bal, gen, repo, locks>>

\* websocket_service.go:71-78  the fields that decide a connection's lifetime.
\* closed counts the close(conn.Events) calls; lastActivity is history, the
\* time of the most recent message received from the client.
newSession(clientID, t) ==
    [ClientID |-> clientID, CreatedAt |-> t, LastSeen |-> t, Active |-> TRUE,
     closed |-> 0, lastActivity |-> t]

\* websocket_service.go:231  the connections a cleanup pass removes
stale(conn, t) == ~conn.Active \/ t - conn.LastSeen > IdleLimit

\* websocket_service.go:224-236  the map after the pass
CleanupInactiveConnections(conns, t) ==
    [c \in {k \in DOMAIN conns : ~stale(conns[k], t)} |-> conns[c]]

SessCall(op, c, after) ==
    [op |-> op, conn |-> c, at |-> now, made |-> sessLast.made,
     before |-> sessions, after |-> after]

\* websocket_service.go:66-83  a client connects
ConnectSession(clientID) ==
    /\ sessLast.made < MaxSessions
    /\ sessions' = MapPut(sessions, sessLast.made + 1, newSession(clientID, now))
    /\ sessLast' = [SessCall("connect", sessLast.made + 1, sessions') EXCEPT !.made = @ + 1]
    /\ UNCHANGED <<now, lifeFrame>>

\* websocket_service.go:157-175, http_server.go:128-142  the reader goroutine
\* hands a client message to ProcessMessage: the message goes to the event bus
\* and the Connection is not touched.
ProcessMessage(c) ==
    /\ c \in DOMAIN sessions
    /\ sessions[c].lastActivity < now
    /\ sessions' = [sessions EXCEPT ![c].lastActivity = now]
    /\ sessLast' = SessCall("message", c, sessions')
    /\ UNCHANGED <<now, lifeFrame>>

\* websocket_service.go:145-154  the client disconnects
CloseSession(c) ==
    /\ c \in DOMAIN sessions
    /\ sessions' = MapDel(sessions, c)
    /\ sessLast' = SessCall("close", c, sessions')
    /\ UNCHANGED <<now, lifeFrame>>

\* websocket_service.go:224-236, 239-251  a pass of the cleanup routine
CleanupSessions ==
    /\ sessions' = CleanupInactiveConnections(sessions, now)
    /\ sessLast' = SessCall("cleanup", 0, sessions')
    /\ sessLast' # sessLast
    /\ UNCHANGED <<now, lifeFrame>>

\* A tick of the clock.
TickSess ==
    /\ now < MaxSessTime
    /\ now' = now + 1
    /\ UNCHANGED <<sessions, sessLast, lifeFrame>>

InitSessions ==
    /\ now = 0
    /\ IdleAdmission
    /\ IdleCaptcha

NextSessions ==
    \/ \E clientID \in ClientIDs : ConnectSession(clientID)
    \/ \E c \in 1..MaxSessions : ProcessMessage(c)
    \/ \E c \in 1..MaxSessions : CloseSession(c)
    \/ CleanupSessions
    \/ TickSess

\* The websocket service's connections with connecting, talking and
\* disconnecting clients, the cleanup routine and the clock.
SpecSessions == InitSessions /\ [][NextSessions]_vars

\* ------------------------------------------------------------ session claims
\* The time a session has been idle at t: since its most recent activity.
idleFor(conn, t) == t - conn.lastActivity

\* C21: a cleanup pass removes exactly the sessions that are inactive or have
\* been idle (no activity) for more than an hour, and leaves the others as
\* they were.
C21_CleanupRemovesExactlyIdle ==
    sessLast.op = "cleanup" =>
        /\ DOMAIN sessLast.after =
              {c \in DOMAIN sessLast.before :
                  ~(\/ ~sessLast.before[c].Active
                    \/ idleFor(sessLast.before[c], sessLast.at) > IdleLimit)}
        /\ \A c \in DOMAIN sessLast.after : sessLast.after[c] = sessLast.before[c]
\* ------------------------------------------------------------ server start-up: ports
\* The largest port number of the modelled host.
MaxPortNumber == 5

Ports == 1..MaxPortNumber

srvFrame == <<rlVars, secVars, capVars, behVars, wsVars, sessions, sessLast, bal, gen, repo, locks>>

\* server.go:565-572  net.Listen succeeds on a port nobody holds; the probe
\* closes its listener again, so it leaves the port free.
isPortAvailable(busy, port) == port \notin busy

\* server.go:532-562  the first run of count consecutive free ports, or <<>>
\* when there is none
findAvailablePorts(minPort, maxPort, busy, count) ==
    LET starts == {p \in minPort..(maxPort - count + 1) :
                      \A i \in 0..(count - 1) :
                          p + i <= maxPort /\ isPortAvailable(busy, p + i)}
    IN  IF starts = {} THEN <<>>
        ELSE LET first == CHOOSE p \in starts : \A q \in starts : p <= q
             IN  [i \in 1..count |-> first + i - 1]

\* part_002:361-371  the lowest free port of the range, or 0 when there is none
findAvailablePort(minPort, maxPort, busy) ==
    LET free == {p \in minPort..maxPort : isPortAvailable(busy, p)}
    IN  IF free = {} THEN 0 ELSE CHOOSE p \in free : \A q \in free : p <= q

\* server.go:83-89  New takes the three ports from one findAvailablePorts(3)
newPortsOnePass(cfg) ==
    LET ports == findAvailablePorts(cfg.MinPort, cfg.MaxPort, cfg.busy, 3)
    IN  IF ports = <<>>
        THEN [err |-> "failed to find available ports", port |-> 0, wsPort |-> 0,
              metricsPort |-> 0]
        ELSE [err |-> "", port |-> ports[1], wsPort |-> ports[2], metricsPort |-> ports[3]]

\* part_002:72-91  New calls findAvailablePort once per surface
newPortsPerSurface(cfg) ==
    LET port == findAvailablePort(cfg.MinPort, cfg.MaxPort, cfg.busy)
        wsPort == findAvailablePort(cfg.MinPort, cfg.MaxPort, cfg.busy)
        metricsPort == findAvailablePort(cfg.MinPort, cfg.MaxPort, cfg.busy)
    IN  IF port = 0 \/ wsPort = 0 \/ metricsPort = 0
        THEN [err |-> "failed to find available port", port |-> 0, wsPort |-> 0,
              metricsPort |-> 0]
        ELSE [err |-> "", port |-> port, wsPort |-> wsPort, metricsPort |-> metricsPort]

\* The two Server sources of package server.
ServerSources == {"server.go", "part_002"}

\* The configurations config validation lets through (0 < MinPort < MaxPort)
\* on a host where other processes hold the ports in busy.
PortConfigs ==
    {[MinPort |-> lo, MaxPort |-> hi, busy |-> b] :
        lo \in Ports, hi \in Ports, b \in SUBSET Ports}

\* server.go:66-173, part_002:55-150  server.New
New ==
    /\ srv.state = "config"
    /\ LET r == IF srv.source = "server.go"
                THEN newPortsOnePass(srv.cfg)
                ELSE newPortsPerSurface(srv.cfg)
       IN  srv' = [srv EXCEPT !.state = IF r.err = "" THEN "created" ELSE "failed",
                              !.ports = r]
    /\ UNCHANGED srvFrame

NoPorts == [err |-> "", port |-> 0, wsPort |-> 0, metricsPort |-> 0]

InitPorts ==
    /\ now = 0
    /\ IdleCore
    /\ IdleCaptcha
    /\ IdleSessions /\ IdleBalancer /\ IdleGen /\ IdleRepo /\ IdleLocks
    /\ \E source \in ServerSources, cfg \in {c \in PortConfigs : c.MinPort < c.MaxPort} :
          srv = [state |-> "config", source |-> source, cfg |-> cfg, ports |-> NoPorts]

NextPorts == New

\* server.New on every valid port range of a small host.
SpecPorts == InitPorts /\ [][NextPorts]_vars

\* C22: a created server holds three ports inside [minPort, maxPort], each free
\* when it was chosen, and pairwise distinct.
C22_ThreeDistinctPortsInRange ==
    srv.state = "created" =>
        LET chosen == <<srv.ports.port, srv.ports.wsPort, srv.ports.metricsPort>>
        IN  /\ \A i \in 1..3 : /\ chosen[i] \in srv.cfg.MinPort..srv.cfg.MaxPort
                               /\ chosen[i] \notin srv.cfg.busy
            /\ \A i, j \in 1..3 : i # j => chosen[i] # chosen[j]

\* The same holds of the server of server.go, whose New takes all three ports
\* from one pass over the range.
PortsDistinctOnePass ==
    (srv.state = "created" /\ srv.source = "server.go") =>
        LET chosen == <<srv.ports.port, srv.ports.wsPort, srv.ports.metricsPort>>
        IN  /\ \A i \in 1..3 : /\ chosen[i] \in srv.cfg.MinPort..srv.cfg.MaxPort
                               /\ chosen[i] \notin srv.cfg.busy
            /\ \A i, j \in 1..3 : i # j => chosen[i] # chosen[j]
\* ------------------------------------------------------------ server shutdown
\* How many streams are open at once in SpecShutdown.
MaxStreams == 2

\* A started server: it accepts streams, holds its external resources (the
\* Redis client and, in server.go, the balancer client), and nobody has
\* called Stop.  pc is the position of the Stop call, steps the order in which
\* the steps of the shutdown took effect.
RunningServer(source) ==
    [state |-> "running", source |-> source, pc |-> "idle",
     shutdownCh |-> "open", accepting |-> TRUE, streams |-> 0,
     gracefulStop |-> "none", grpcDone |-> FALSE, auxDone |-> FALSE,
     ctxDone |-> FALSE, hardClosed |-> FALSE, released |-> FALSE, steps |-> <<>>]

step(s, name) == [s EXCEPT !.steps = Append(@, name)]

\* A client opens a stream on the serving gRPC server.
StreamOpens ==
    /\ srv.state = "running"
    /\ srv.accepting
    /\ srv.streams < MaxStreams
    /\ srv' = [srv EXCEPT !.streams = @ + 1]
    /\ UNCHANGED srvFrame

\* A stream's handler returns.
StreamEnds ==
    /\ srv.state = "running"
    /\ srv.streams > 0
    /\ srv' = [srv EXCEPT !.streams = @ - 1]
    /\ UNCHANGED srvFrame

\* server.go:241-270, part_002:231-260  Stop closes the shutdown channel and
\* starts the goroutines that stop the gRPC, WebSocket and Prometheus servers.
StopBegins ==
    /\ srv.state = "running"
    /\ srv.pc = "idle"
    /\ srv' = [step(srv, "signal") EXCEPT !.pc = "release", !.shutdownCh = "closed",
                                          !.gracefulStop = "spawned"]
    /\ UNCHANGED srvFrame

\* server.go:249-252  the goroutine enters grpcServer.GracefulStop: the
\* listener is closed and no new stream is accepted
GracefulStopEnters ==
    /\ srv.gracefulStop = "spawned"
    /\ srv' = [step(srv, "stop_accepting") EXCEPT !.gracefulStop = "draining",
                                                  !.accepting = FALSE]
    /\ UNCHANGED srvFrame

\* server.go:250-251  GracefulStop returns once every stream has finished, and
\* the goroutine closes grpcDone
GracefulStopReturns ==
    /\ srv.gracefulStop = "draining"
    /\ srv.streams = 0
    /\ srv' = [step(srv, "drained") EXCEPT !.gracefulStop = "done", !.grpcDone = TRUE]
    /\ UNCHANGED srvFrame

\* server.go:254-270  the WebSocket and Prometheus servers have stopped
AuxStopsReturn ==
    /\ srv.pc # "idle"
    /\ ~srv.auxDone
    /\ srv' = [srv EXCEPT !.auxDone = TRUE]
    /\ UNCHANGED srvFrame

\* The deadline of the context passed to Stop expires.
DeadlineExpires ==
    /\ srv.pc \notin {"idle", "returned"}
    /\ ~srv.ctxDone
    /\ srv' = [srv EXCEPT !.ctxDone = TRUE]
    /\ UNCHANGED srvFrame

\* server.go:272-287, part_002:262-267  Stop closes the balancer client and
\* the Redis client
ReleaseResources ==
    /\ srv.pc = "release"
    /\ srv' = [step(srv, "release") EXCEPT !.pc = "wait_grpc", !.released = TRUE]
    /\ UNCHANGED srvFrame

\* server.go:290-296  select: grpcDone, or the deadline and grpcServer.Stop(),
\* which closes every open stream
WaitGrpcGraceful ==
    /\ srv.pc = "wait_grpc"
    /\ srv.grpcDone
    /\ srv' = [srv EXCEPT !.pc = "wait_aux"]
    /\ UNCHANGED srvFrame

WaitGrpcForced ==
    /\ srv.pc = "wait_grpc"
    /\ srv.ctxDone
    /\ srv' = [step(srv, "hard_close") EXCEPT !.pc = "wait_aux", !.hardClosed = TRUE,
                                              !.accepting = FALSE, !.streams = 0]
    /\ UNCHANGED srvFrame

\* server.go:298-326  the remaining selects, each passed by its done channel
\* or by the deadline; then Stop returns
StopReturns ==
    /\ srv.pc = "wait_aux"
    /\ srv.auxDone \/ srv.ctxDone
    /\ srv' = [step(srv, "return") EXCEPT !.pc = "returned"]
    /\ UNCHANGED srvFrame

InitShutdown ==
    /\ now = 0
    /\ IdleCore
    /\ IdleCaptcha
    /\ IdleSessions /\ IdleBalancer /\ IdleGen /\ IdleRepo /\ IdleLocks
    /\ \E source \in ServerSources : srv = RunningServer(source)

NextShutdown ==
    \/ StreamOpens
    \/ StreamEnds
    \/ StopBegins
    \/ GracefulStopEnters
    \/ GracefulStopReturns
    \/ AuxStopsReturn
    \/ DeadlineExpires
    \/ ReleaseResources
    \/ WaitGrpcGraceful
    \/ WaitGrpcForced
    \/ StopReturns

\* A serving server with its streams, and one call of Stop with a deadline.
SpecShutdown == InitShutdown /\ [][NextShutdown]_vars

\* The position of the first occurrence of name in the steps, 0 if none.
stepAt(name) ==
    IF \E i \in 1..Len(srv.steps) : srv.steps[i] = name
    THEN CHOOSE i \in 1..Len(srv.steps) :
            srv.steps[i] = name /\ \A j \in 1..(i - 1) : srv.steps[j] # name
    ELSE 0

\* C23: the steps of a shutdown take effect in the order signal, stop
\* accepting, drain or hard close, release of the external resources, return:
\* the resources are released only after the drain or the hard close is over.
C23_ShutdownOrder ==
    (srv.state = "running" /\ srv.released) =>
        /\ stepAt("signal") > 0 /\ stepAt("signal") < stepAt("stop_accepting")
        /\ \/ stepAt("drained") > 0 /\ stepAt("drained") < stepAt("release")
           \/ stepAt("hard_close") > 0 /\ stepAt("hard_close") < stepAt("release")
\* ------------------------------------------------------------ balancer registration
\* config.Balancer.MaxRetryAttempts and RetryDelay (in ticks of one second).
MaxRetryAttempts == 2
RetryDelay == 2
\* Largest clock value explored by SpecBalancer.
MaxBalTime == 4
\* How many registration messages the director's log keeps.
MaxMessages == 4

balFrame == <<impl, redisCfg, redisUp, limit, window, mu, localLimits, optLimits,
              redisCounters, redisZ, pc, fr, calls, secVars, capVars, behVars, wsVars,
              sessions, sessLast, srv, gen, repo, locks>>

\* A server whose balancer client has been created (server.go:157-165):
\*   loop       position of startBalancerRegistration
\*   attempts   the times at which StartRegistration was called
\*   up         the director is reachable
\*   nextStream how many RegisterInstance streams have been created
\*   regStream  the stream StartRegistration registered on (0: none), broken
\*              when the stream has failed
\*   heartbeat  heartbeatLoop is running; lastBeat is its last tick
\*   received   what the director has received, in order: [type, stream]
\*   ctxDone    the context passed to Start is cancelled
\*   stop       position of the shutdown: "none", "stopped" (StopRegistration
\*              has returned), "closed" (Close has returned)
\*   serving    the gRPC server answers requests
NewBalancer ==
    [state |-> "created", loop |-> "start", attempts |-> <<>>, waitFrom |-> 0,
     up |-> TRUE, nextStream |-> 0, regStream |-> 0, broken |-> FALSE,
     heartbeat |-> FALSE, lastBeat |-> 0, received |-> <<>>,
     ctxDone |-> FALSE, stop |-> "none", stopStream |-> 0, closedStreams |-> {},
     serving |-> TRUE]

\* What the director's log looks like after one more message (the log keeps
\* the MaxMessages most recent).
deliver(received, type, stream) ==
    LET all == Append(received, [type |-> type, stream |-> stream])
    IN  IF Len(all) > MaxMessages THEN Tail(all) ELSE all

\* A stream can carry a message: the director is reachable, the connection is
\* open, the stream has not failed and its context is not cancelled.
streamUsable(b, ctxCancelled, streamBroken) ==
    b.up /\ b.stop # "closed" /\ ~ctxCancelled /\ ~streamBroken

\* server.go:426-427 with captcha_service.go:169-189  one pass of the retry
\* loop calls StartRegistration: create the stream, send READY, start the
\* heartbeat loop and the response handler.
StartRegistration ==
    /\ bal.state = "created"
    /\ bal.loop \in {"start", "retry"}
    /\ LET b == [bal EXCEPT !.attempts = Append(@, now)]
       IN  IF streamUsable(bal, bal.ctxDone, FALSE)
           THEN bal' = [b EXCEPT !.loop = "registered",
                                 !.nextStream = @ + 1,
                                 !.regStream = bal.nextStream + 1,
                                 !.broken = FALSE,
                                 !.heartbeat = TRUE, !.lastBeat = now,
                                 !.received = deliver(@, "READY", bal.nextStream + 1)]
           ELSE IF Len(b.attempts) < MaxRetryAttempts
           THEN bal' = [b EXCEPT !.loop = "waiting", !.waitFrom = now]
           ELSE bal' = [b EXCEPT !.loop = "exhausted"]
    /\ UNCHANGED <<now, balFrame>>

\* server.go:432-437  the select of a failed pass: the retry delay elapses
RetryAfterDelay ==
    /\ bal.state = "created"
    /\ bal.loop = "waiting"
    /\ now - bal.waitFrom >= RetryDelay
    /\ bal' = [bal EXCEPT !.loop = "retry"]
    /\ UNCHANGED <<now, balFrame>>

\* server.go:433-434  ... or the context is cancelled and the loop returns
RetryCancelled ==
    /\ bal.state = "created"
    /\ bal.loop = "waiting"
    /\ bal.ctxDone
    /\ bal' = [bal EXCEPT !.loop = "cancelled"]
    /\ UNCHANGED <<now, balFrame>>

\* captcha_service.go:227-242  a tick of the heartbeat loop: READY on the
\* registration stream; a failed send is logged and the loop goes on.
Heartbeat ==
    /\ bal.state = "created"
    /\ bal.heartbeat
    /\ now - bal.lastBeat >= 1
    /\ bal' = [bal EXCEPT !.lastBeat = now,
                          !.received =
                              IF streamUsable(bal, bal.ctxDone, bal.broken)
                              THEN deliver(@, "READY", bal.regStream)
                              ELSE @]
    /\ UNCHANGED <<now, balFrame>>

\* captcha_service.go:233-235  the heartbeat loop sees the cancelled context
HeartbeatStops ==
    /\ bal.state = "created"
    /\ bal.heartbeat
    /\ bal.ctxDone
    /\ bal' = [bal EXCEPT !.heartbeat = FALSE]
    /\ UNCHANGED <<now, balFrame>>

\* The registration stream fails (the director or the network drops it);
\* captcha_service.go:252-256: handleResponses logs the error and returns.
StreamFails ==
    /\ bal.state = "created"
    /\ bal.loop = "registered"
    /\ ~bal.broken
    /\ bal.stop = "none"
    /\ bal' = [bal EXCEPT !.broken = TRUE]
    /\ UNCHANGED <<now, balFrame>>

\* The director becomes unreachable, or reachable again.
DirectorFlips ==
    /\ bal.state = "created"
    /\ bal.stop = "none"
    /\ bal' = [bal EXCEPT !.up = ~@]
    /\ UNCHANGED <<now, balFrame>>

\* The context passed to Start is cancelled.
CancelStart ==
    /\ bal.state = "created"
    /\ ~bal.ctxDone
    /\ bal' = [bal EXCEPT !.ctxDone = TRUE]
    /\ UNCHANGED <<now, balFrame>>

\* captcha_service.go:191-205  StopRegistration: a new stream, STOPPED on it,
\* CloseSend on it
StopRegistration ==
    /\ bal.state = "created"
    /\ bal.stop = "none"
    /\ IF streamUsable(bal, FALSE, FALSE)
       THEN bal' = [bal EXCEPT !.stop = "stopped",
                               !.nextStream = @ + 1,
                               !.stopStream = bal.nextStream + 1,
                               !.closedStreams = @ \cup {bal.nextStream + 1},
                               !.received = deliver(@, "STOPPED", bal.nextStream + 1)]
       ELSE bal' = [bal EXCEPT !.stop = "stopped"]
    /\ UNCHANGED <<now, balFrame>>

\* captcha_service.go:207-210, server.go:277-279  Close closes the connection
CloseBalancer ==
    /\ bal.state = "created"
    /\ bal.stop = "stopped"
    /\ bal' = [bal EXCEPT !.stop = "closed"]
    /\ UNCHANGED <<now, balFrame>>

\* A tick of the clock.
TickBal ==
    /\ bal.state = "created"
    /\ now < MaxBalTime
    /\ now' = now + 1
    /\ UNCHANGED <<bal, balFrame>>

InitBalancer ==
    /\ now = 0
    /\ IdleCore
    /\ IdleCaptcha
    /\ IdleSessions /\ IdleServer /\ IdleGen /\ IdleRepo /\ IdleLocks
    /\ \E up \in BOOLEAN : bal = [NewBalancer EXCEPT !.up = up]

NextBalancer ==
    \/ StartRegistration
    \/ RetryAfterDelay
    \/ RetryCancelled
    \/ Heartbeat
    \/ HeartbeatStops
    \/ StreamFails
    \/ DirectorFlips
    \/ CancelStart
    \/ StopRegistration
    \/ CloseBalancer
    \/ TickBal

\* The balancer client of a started server, the director at the far end, the
\* shutdown and the clock.
SpecBalancer == InitBalancer /\ [][NextBalancer]_vars

\* ------------------------------------------------------------ balancer claims
\* Stop has sent STOPPED for a registration made before it.
stoppedAfterRegistering ==
    /\ bal.state = "created"
    /\ bal.stopStream # 0
    /\ bal.regStream # 0
    /\ bal.regStream < bal.stopStream

\* C24: once Stop has sent STOPPED, STOPPED is the last registration message
\* the director has received (no READY follows it); it was sent on the
\* registration stream, and that stream is closed.
C24_StoppedIsLast ==
    stoppedAfterRegistering =>
        /\ bal.received[Len(bal.received)].type = "STOPPED"
        /\ bal.stopStream = bal.regStream
        /\ bal.regStream \in bal.closedStreams

\* The first part alone: after Stop has sent STOPPED, no READY reaches the
\* director.
NoReadyAfterStopped ==
    stoppedAfterRegistering => bal.received[Len(bal.received)].type = "STOPPED"
\* The retry loop respects its budget: at most MaxRetryAttempts calls of
\* StartRegistration, RetryDelay apart, and none after exhaustion.
RetryBudgetRespected ==
    bal.state = "created" =>
        /\ Len(bal.attempts) <= MaxRetryAttempts
        /\ \A i \in 1..(Len(bal.attempts) - 1) :
              bal.attempts[i + 1] - bal.attempts[i] >= RetryDelay
        /\ bal.loop = "exhausted" => (Len(bal.attempts) = MaxRetryAttempts /\ bal.serving)

\* The registration stream has failed while the service is up and wanted.
registrationLost ==
    /\ bal.state = "created"
    /\ bal.regStream # 0
    /\ bal.broken
    /\ bal.stop = "none"
    /\ ~bal.ctxDone

\* C25: when the registration stream fails, the client goes back to
\* registering (a retry after the configured delay) unless its attempts are
\* used up; attempts are at most maxRetryAttempts and the delay apart, and
\* after exhaustion the service still serves.
C25_RetryOnStreamFailure ==
    /\ RetryBudgetRespected
    /\ (registrationLost /\ Len(bal.attempts) < MaxRetryAttempts) =>
          bal.loop \in {"waiting", "retry"}
\* ------------------------------------------------------------ target placement
\* The canvas and the targets, scaled down: the click radius, the side of a
\* swipe box (80 in the code) and the margin the swipe generator keeps (100).
CanvasWidth == 6
CanvasHeight == 3
ClickRadius == 1
SwipeSide == 1
SwipeMargin == 2
\* The placement attempts of avoidOverlap (50 in the code).
MaxPlacementAttempts == 2
\* How many targets one challenge gets.
MaxTargets == 3

genFrame == <<rlVars, secVars, capVars, behVars, wsVars, sessions, sessLast, srv, bal, repo, locks>>

\* click.go:319-320, swipe.go:534-535  the positions rand.Intn can produce
Positions(kind) ==
    IF kind = "click"
    THEN {[x |-> x, y |-> y] : x \in ClickRadius..(CanvasWidth - ClickRadius - 1),
                               y \in ClickRadius..(CanvasHeight - ClickRadius - 1)}
    ELSE {[x |-> x, y |-> y] : x \in 0..(CanvasWidth - SwipeMargin - 1),
                               y \in 0..(CanvasHeight - SwipeMargin - 1)}

\* click.go:355-356  distance < 2*clickRadius, on the squares
\* swipe.go:591-593  checkOverlap of two boxes of side SwipeSide
overlap(kind, p, q) ==
    IF kind = "click"
    THEN (p.x - q.x) * (p.x - q.x) + (p.y - q.y) * (p.y - q.y)
            < (2 * ClickRadius) * (2 * ClickRadius)
    ELSE ~(\/ p.x + SwipeSide < q.x \/ q.x + SwipeSide < p.x
           \/ p.y + SwipeSide < q.y \/ q.y + SwipeSide < p.y)

overlapsAny(kind, p, existing) ==
    \E i \in 1..Len(existing) : overlap(kind, p, existing[i])

\* click.go:343-368, swipe.go:564-588  avoidOverlap: the loop over its own x
\* and y, with draws the positions its rand.Intn calls produce.  The result is
\* the value of the loop's x, y when it ends.
RECURSIVE avoidLoop(_, _, _, _, _)
avoidLoop(kind, p, existing, draws, attempts) ==
    IF attempts >= MaxPlacementAttempts \/ ~overlapsAny(kind, p, existing)
    THEN [p |-> p, attempts |-> attempts]
    ELSE avoidLoop(kind, draws[attempts + 1], existing, draws, attempts + 1)

avoidOverlap(kind, p, existing, draws) == avoidLoop(kind, p, existing, draws, 0)

\* click.go:317-336, swipe.go:532-558  one turn of the generator's loop: draw
\* a position, call avoidOverlap(x, y, areas[:i]), which takes x and y by
\* value and returns nothing, and place the target at x, y.
placeTarget(kind, p, existing, draws) ==
    LET local == avoidOverlap(kind, p, existing, draws)
    IN  [at |-> p, local |-> local.p,
         found |-> ~overlapsAny(kind, local.p, existing)]

GeneratorKinds == {"click", "swipe"}

\* generateClickAreas / generateSwipeAreas is entered
StartGenerate(kind) ==
    /\ gen.stage = "none"
    /\ gen' = [stage |-> "placing", kind |-> kind, areas |-> <<>>, found |-> TRUE]
    /\ UNCHANGED genFrame

PlaceTarget(p, draws) ==
    /\ gen.stage = "placing"
    /\ Len(gen.areas) < MaxTargets
    /\ p \in Positions(gen.kind)
    /\ \A i \in 1..MaxPlacementAttempts : draws[i] \in Positions(gen.kind)
    /\ LET r == placeTarget(gen.kind, p, gen.areas, draws)
       IN  gen' = [gen EXCEPT !.areas = Append(@, r.at),
                              !.found = @ /\ r.found]
    /\ UNCHANGED genFrame

InitGenerator ==
    /\ now = 0
    /\ IdleAdmission
    /\ IdleCaptcha

AllPositions == Positions("click") \cup Positions("swipe")

NextGenerator ==
    \/ \E kind \in GeneratorKinds : StartGenerate(kind)
    \/ \E p \in AllPositions, draws \in [1..MaxPlacementAttempts -> AllPositions] :
          PlaceTarget(p, draws)

\* The click and the swipe generator placing the targets of one challenge.
SpecGenerator == InitGenerator /\ [][NextGenerator]_vars

\* C26: when every call of avoidOverlap found a position clear of the targets
\* placed before, no two targets of the challenge overlap (for click: their
\* centres are at least 2*radius apart).
C26_NoOverlapWhenFound ==
    (gen.stage = "placing" /\ gen.found) =>
        \A i, j \in 1..Len(gen.areas) :
            i # j => ~overlap(gen.kind, gen.areas[i], gen.areas[j])
\* ------------------------------------------------------------ denied calls and the bucket
\* What a key's bucket holds at clock value t: the count and the start of the
\* local window, the valid requests of the sliding window, the live counter of
\* the external store with its expiry, the live sorted set with its expiry.
bucketOf(k, t) ==
    [basic |-> IF k \in DOMAIN localLimits THEN <<localLimits[k]>> ELSE <<>>,
     sliding |-> IF k \in DOMAIN optLimits
                 THEN validRequests(optLimits[k], t, window) ELSE <<>>,
     counter |-> IF k \in DOMAIN redisCounters /\ t < redisCounters[k].expireAt
                 THEN <<redisCounters[k]>> ELSE <<>>,
     zset |-> IF k \in DOMAIN redisZ /\ t < redisZ[k].expireAt
              THEN <<redisZ[k]>> ELSE <<>>]

\* The step in which caller p's Allow call on key k is decided against it by
\* the external store (the whole call is this step).
deniedByRedis(k) ==
    /\ Len(calls') = Len(calls) + 1
    /\ calls'[Len(calls')].path = "redis"
    /\ calls'[Len(calls')].key = k
    /\ ~calls'[Len(calls')].ok

\* The steps of a call on key k that the local limiter denies: the critical
\* section from mu.Lock() to the deferred mu.Unlock().
deniedLocally(k) ==
    \E p \in Procs :
        /\ fr'[p].key = k \/ fr[p].key = k
        /\ \/ pc[p] = "lock" /\ pc'[p] = "locked" /\ ~fr'[p].ok /\ fr'[p].key = k
           \/ pc[p] = "locked" /\ pc'[p] = "idle" /\ ~fr[p].ok /\ fr[p].key = k

\* C27: a denied Allow call leaves the key's bucket as it was: it neither
\* consumes capacity nor postpones the next allowed time.
C27_DeniedLeavesBucket ==
    [][\A k \in Keys :
          (deniedByRedis(k) \/ deniedLocally(k)) => bucketOf(k, now)' = bucketOf(k, now)]_vars

\* The local limiters alone: a call they deny leaves the bucket as it was.
DeniedLocallyLeavesBucket ==
    [][\A k \in Keys : deniedLocally(k) => bucketOf(k, now)' = bucketOf(k, now)]_vars
\* ------------------------------------------------------------ the challenge store and its callers
\* How many challenges the store is given, and how far the clock runs.
MaxStored == 2
MaxRepoTime == 2
\* The lifetime of a challenge, in clock ticks.
RepoTimeout == 1

repoFrame == <<impl, redisCfg, redisUp, limit, window, mu, localLimits, optLimits,
               redisCounters, redisZ, pc, fr, calls, secVars, capVars, behVars, wsVars,
               sessions, sessLast, srv, bal, gen, locks>>

\* The goroutines that call into the store: two ValidateChallenge calls and
\* one caller of GetActiveCount.
Validators == {"v1", "v2"}
Counters == {"g"}
RepoCallers == Validators \cup Counters

NoAccess == {}

\* NewInMemoryChallengeRepository (click.go:1211-1215) with the heap of
\* Challenge objects its map points into: heap is id -> Challenge, stored the
\* ids the map holds; readers and writer are the holders of mu.
NewRepo ==
    [state |-> "run", heap |-> EmptyMap, stored |-> {}, readers |-> {}, writer |-> NoOwner,
     pc |-> [p \in RepoCallers |-> "idle"], ptr |-> [p \in RepoCallers |-> 0],
     answer |-> [p \in RepoCallers |-> "none"], count |-> 0, access |-> NoAccess]

\* sync.RWMutex: RLock succeeds when nobody holds the write lock, Lock when
\* nobody holds the lock at all.
canRLock(r) == r.writer = NoOwner
canLock(r) == r.writer = NoOwner /\ r.readers = {}

\* p holds mu, for reading or for writing
holdsLock(r, p) == p \in r.readers \/ r.writer = p

\* One access of a field of the Challenge object id by caller p.
fieldAccess(r, p, id, field, write, locked) ==
    [by |-> p, id |-> id, field |-> field, write |-> write,
     locked |-> locked, stored |-> id \in r.stored]

\* click.go:1219-1225  Create, the whole critical section
RepoCreate ==
    /\ repo.state = "run"
    /\ canLock(repo)
    /\ Cardinality(DOMAIN repo.heap) < MaxStored
    /\ LET id == Cardinality(DOMAIN repo.heap) + 1
       IN  repo' = [repo EXCEPT
                       !.heap = MapPut(@, id, [Solved |-> FALSE, ExpiresAt |-> now + RepoTimeout]),
                       !.stored = @ \cup {id},
                       !.access = NoAccess]
    /\ UNCHANGED <<now, repoFrame>>

\* captcha_usecase.go:94-97 with click.go:1228-1239  Get: RLock, look the id
\* up, RUnlock, return the pointer the map holds (or ErrChallengeNotFound).
ValidateGets(p, id) ==
    /\ repo.state = "run"
    /\ repo.pc[p] = "idle"
    /\ canRLock(repo)
    /\ repo' = IF id \in repo.stored
               THEN [repo EXCEPT !.pc[p] = "got", !.ptr[p] = id, !.answer[p] = "none",
                                 !.access = NoAccess]
               ELSE [repo EXCEPT !.ptr[p] = 0, !.answer[p] = "not found",
                                 !.access = NoAccess]
    /\ UNCHANGED <<now, repoFrame>>

\* captcha_usecase.go:99-116  the reads of challenge.ExpiresAt and
\* challenge.Solved through the pointer Get returned, with mu released.
ValidateChecks(p) ==
    /\ repo.pc[p] = "got"
    /\ LET id == repo.ptr[p]
           c == repo.heap[id]
           readExpires == fieldAccess(repo, p, id, "ExpiresAt", FALSE, holdsLock(repo, p))
           readSolved == fieldAccess(repo, p, id, "Solved", FALSE, holdsLock(repo, p))
       IN  repo' = IF now > c.ExpiresAt
                   THEN [repo EXCEPT !.pc[p] = "idle", !.answer[p] = "expired",
                                     !.access = {readExpires}]
                   ELSE IF c.Solved
                        THEN [repo EXCEPT !.pc[p] = "idle", !.answer[p] = "solved",
                                          !.access = {readExpires, readSolved}]
                        ELSE [repo EXCEPT !.pc[p] = "validate",
                                          !.access = {readExpires, readSolved}]
    /\ UNCHANGED <<now, repoFrame>>

\* captcha_usecase.go:118-122  validateAnswer and the test of its verdict
ValidateJudges(p, isValid) ==
    /\ repo.pc[p] = "validate"
    /\ repo' = IF isValid
               THEN [repo EXCEPT !.pc[p] = "write", !.access = NoAccess]
               ELSE [repo EXCEPT !.pc[p] = "idle", !.answer[p] = "wrong",
                                 !.access = NoAccess]
    /\ UNCHANGED <<now, repoFrame>>

\* captcha_usecase.go:123  challenge.Solved = true, through the pointer
ValidateWrites(p) ==
    /\ repo.pc[p] = "write"
    /\ LET id == repo.ptr[p]
       IN  repo' = [repo EXCEPT !.heap[id].Solved = TRUE, !.pc[p] = "update",
                       !.access = {fieldAccess(repo, p, id, "Solved", TRUE, holdsLock(repo, p))}]
    /\ UNCHANGED <<now, repoFrame>>

\* captcha_usecase.go:124 with click.go:1242-1253  Update: Lock, store the
\* pointer under its id if the id is there, Unlock; the error is dropped.
ValidateUpdates(p) ==
    /\ repo.pc[p] = "update"
    /\ canLock(repo)
    /\ repo' = [repo EXCEPT !.pc[p] = "idle", !.answer[p] = "valid", !.access = NoAccess]
    /\ UNCHANGED <<now, repoFrame>>

\* click.go:1269-1271  GetActiveCount takes the read lock
CountEnters(p) ==
    /\ repo.state = "run"
    /\ repo.pc[p] = "idle"
    /\ canRLock(repo)
    /\ repo' = [repo EXCEPT !.pc[p] = "counting", !.readers = @ \cup {p},
                            !.access = NoAccess]
    /\ UNCHANGED <<now, repoFrame>>

\* click.go:1272-1282  the loop over the map and the deferred RUnlock
CountLeaves(p) ==
    /\ repo.pc[p] = "counting"
    /\ repo' = [repo EXCEPT
                   !.pc[p] = "idle", !.readers = @ \ {p},
                   !.count = Cardinality({id \in repo.stored :
                                 ~repo.heap[id].Solved /\ repo.heap[id].ExpiresAt > now}),
                   !.access = {fieldAccess(repo, p, id, "Solved", FALSE, holdsLock(repo, p)) :
                                 id \in repo.stored}]
    /\ UNCHANGED <<now, repoFrame>>

\* click.go:1285-1298  CleanupExpired, the whole critical section
RepoCleanup ==
    /\ repo.state = "run"
    /\ canLock(repo)
    /\ \E id \in repo.stored : repo.heap[id].ExpiresAt < now
    /\ repo' = [repo EXCEPT !.stored = {id \in @ : ~(repo.heap[id].ExpiresAt < now)},
                            !.access = NoAccess]
    /\ UNCHANGED <<now, repoFrame>>

\* The clock advances.
TickRepo ==
    /\ repo.state = "run"
    /\ now < MaxRepoTime
    /\ now' = now + 1
    /\ repo' = [repo EXCEPT !.access = NoAccess]
    /\ UNCHANGED repoFrame

InitRepo ==
    /\ now = 0
    /\ IdleCore
    /\ IdleCaptcha
    /\ IdleSessions /\ IdleServer /\ IdleBalancer /\ IdleGen /\ IdleLocks
    /\ repo = NewRepo

NextRepo ==
    \/ RepoCreate
    \/ \E p \in Validators, id \in 1..MaxStored : ValidateGets(p, id)
    \/ \E p \in Validators : ValidateChecks(p)
    \/ \E p \in Validators, isValid \in BOOLEAN : ValidateJudges(p, isValid)
    \/ \E p \in Validators : ValidateWrites(p)
    \/ \E p \in Validators : ValidateUpdates(p)
    \/ \E p \in Counters : CountEnters(p)
    \/ \E p \in Counters : CountLeaves(p)
    \/ RepoCleanup
    \/ TickRepo

\* The in-memory challenge store with concurrent validations and counts.
SpecRepo == InitRepo /\ [][NextRepo]_vars

\* The step changes a field of a Challenge object on the heap.
heapWritten == repo.state = "run" /\ repo'.state = "run" /\
    \E id \in DOMAIN repo.heap : repo'.heap[id] # repo.heap[id]

\* C28: a validation changes nothing but the solved flag of the challenge it
\* validates, and changes it only inside a store operation (holding the
\* store's write lock).
C28_ValidationWritesThroughStore ==
    [][heapWritten =>
          \E p \in Validators :
             /\ repo.pc[p] # repo'.pc[p]
             /\ \A id \in DOMAIN repo.heap :
                   repo'.heap[id] # repo.heap[id] =>
                      /\ id = repo.ptr[p]
                      /\ repo'.heap[id] = [repo.heap[id] EXCEPT !.Solved = TRUE]
             /\ repo.writer = p]_vars

\* What a validation writes, wherever it writes it: nothing but the solved
\* flag of the challenge it validates.
ValidationWritesOnlySolved ==
    [][heapWritten =>
          \E p \in Validators :
             /\ repo.pc[p] = "write"
             /\ \A id \in DOMAIN repo.heap :
                   repo'.heap[id] # repo.heap[id] =>
                      /\ id = repo.ptr[p]
                      /\ repo'.heap[id] = [repo.heap[id] EXCEPT !.Solved = TRUE]]_vars

\* C29: every read and every write of a field of a stored challenge is made
\* by a caller that holds the store's lock.
C29_FieldAccessInsideLock ==
    repo.state = "run" =>
        \A a \in repo.access : a.stored => a.locked

\* A data race on the solved flag: one validation is about to write it
\* through its pointer while GetActiveCount, holding the read lock, reads it.
SolvedFlagRace ==
    /\ repo.state = "run"
    /\ \E v \in Validators, g \in Counters :
          /\ repo.pc[v] = "write"
          /\ repo.ptr[v] \in repo.stored
          /\ repo.pc[g] = "counting"
\* ------------------------------------------------------------ what a cleanup pass leaves
\* The step is a pass of CleanupExpired over the challenge store.
cleanupPass == capLast'.op = "cleanup" /\ capLast.op # "cleanup"

\* C30: after a pass of CleanupExpired at clock value now the store holds no
\* entry with expiresAt <= now, and still holds every entry with
\* expiresAt > now, as it was.
C30_CleanupRemovesExpired ==
    [][cleanupPass =>
          /\ \A id \in DOMAIN challenges' : challenges'[id].ExpiresAt > now
          /\ \A id \in DOMAIN challenges :
                challenges[id].ExpiresAt > now =>
                   id \in DOMAIN challenges' /\ challenges'[id] = challenges[id]]_vars

\* The boundary the code draws: a pass removes the entries with
\* expiresAt < now and keeps the others, as they were.
CleanupRemovesStrictlyExpired ==
    [][cleanupPass =>
          /\ \A id \in DOMAIN challenges' : challenges'[id].ExpiresAt >= now
          /\ \A id \in DOMAIN challenges :
                challenges[id].ExpiresAt >= now =>
                   id \in DOMAIN challenges' /\ challenges'[id] = challenges[id]]_vars
\* ------------------------------------------------------------ concurrent CreateChallenge calls
\* How many challenges the concurrent creators make in one run.
MaxCreated == 3

\* The goroutines inside CreateChallenge.
Creators == {"c1", "c2"}

\* The store and the position of each CreateChallenge call: seen is the
\* activeCount the call read.
NewCreateRun ==
    [state |-> "admit", heap |-> EmptyMap,
     pc |-> [p \in Creators |-> "idle"], seen |-> [p \in Creators |-> 0],
     refused |-> [p \in Creators |-> FALSE]]

creating(r) == Cardinality({p \in Creators : r.pc[p] = "build"})

\* captcha_usecase.go:53-56  activeCount := GetActiveCount(ctx), a critical
\* section of its own, and the comparison with MaxActiveChallenges.
CreateCounts(p) ==
    /\ repo.state = "admit"
    /\ repo.pc[p] = "idle"
    /\ Cardinality(DOMAIN repo.heap) + creating(repo) < MaxCreated
    /\ LET activeCount == GetActiveCount(repo.heap, now)
       IN  repo' = IF activeCount >= MaxActiveChallenges
                   THEN [repo EXCEPT !.seen[p] = activeCount, !.refused[p] = TRUE]
                   ELSE [repo EXCEPT !.seen[p] = activeCount, !.refused[p] = FALSE,
                                     !.pc[p] = "build"]
    /\ UNCHANGED <<now, repoFrame>>

\* captcha_usecase.go:58-88 with click.go:1218-1225  the challenge is built
\* and stored by Create, a second critical section.
CreateStores(p) ==
    /\ repo.state = "admit"
    /\ repo.pc[p] = "build"
    /\ LET id == Cardinality(DOMAIN repo.heap) + 1
       IN  repo' = [repo EXCEPT
                       !.heap = MapPut(@, id, [Solved |-> FALSE,
                                               ExpiresAt |-> now + ChallengeTimeout]),
                       !.pc[p] = "idle"]
    /\ UNCHANGED <<now, repoFrame>>

\* captcha_usecase.go:122-125  a validation marks a stored challenge solved
SolveStored(id) ==
    /\ repo.state = "admit"
    /\ id \in DOMAIN repo.heap
    /\ ~repo.heap[id].Solved
    /\ ~(now > repo.heap[id].ExpiresAt)
    /\ repo' = [repo EXCEPT !.heap[id].Solved = TRUE]
    /\ UNCHANGED <<now, repoFrame>>

\* The clock advances.
TickCreate ==
    /\ repo.state = "admit"
    /\ now < MaxCapTime
    /\ now' = now + 1
    /\ UNCHANGED <<repo, repoFrame>>

InitCreate ==
    /\ now = 0
    /\ IdleCore
    /\ IdleCaptcha
    /\ IdleSessions /\ IdleServer /\ IdleBalancer /\ IdleGen /\ IdleLocks
    /\ repo = NewCreateRun

NextCreate ==
    \/ \E p \in Creators : CreateCounts(p)
    \/ \E p \in Creators : CreateStores(p)
    \/ \E id \in 1..MaxCreated : SolveStored(id)
    \/ TickCreate

\* Concurrent CreateChallenge calls against one store.
SpecCreate == InitCreate /\ [][NextCreate]_vars

\* C31: the number of active (unsolved, unexpired) challenges in the store
\* never exceeds MaxActiveChallenges.
C31_ActiveNeverExceedsMax ==
    repo.state = "admit" => GetActiveCount(repo.heap, now) <= MaxActiveChallenges

\* One CreateChallenge call at a time keeps the cap: a call that stores a
\* challenge while no other call is between its count and its store leaves
\* at most MaxActiveChallenges active.
CapHoldsWithoutOverlap ==
    [][(repo.state = "admit" /\ creating(repo) = 1 /\ creating(repo') = 0
        /\ GetActiveCount(repo.heap, now) <= MaxActiveChallenges
        /\ \E p \in Creators : repo.pc[p] = "build"
                               /\ repo.seen[p] = GetActiveCount(repo.heap, now))
       => GetActiveCount(repo'.heap, now) <= MaxActiveChallenges]_vars
\* ------------------------------------------------------------ the click verdict
\* validateAnswer has scored a []string attempt against the []string oracle
\* of a click challenge.
clickScored ==
    /\ probe.stage = "verdict"
    /\ probe.Type = "click"
    /\ probe.Answer.kind = "strings"
    /\ probe.attempt.kind = "strings"

\* C32 as stated: for a click attempt of the oracle's length the verdict is
\* solved iff the attempt equals the oracle, with confidence
\* 100 * prefixMatches / len, prefixMatches the length of the longest matching
\* prefix; an attempt of another length yields (false, 20).
C32_ClickPrefixConfidence ==
    clickScored =>
        LET e == probe.Answer.seq
            a == probe.attempt.seq
        IN  IF Len(e) # Len(a)
            THEN probe.verdict = Verdict(FALSE, 20)
            ELSE probe.verdict = Verdict(e = a, (prefixMatches(e, a) * 100) \div Len(e))

\* C32 amended: the confidence is 100 * matches / len, rounded down, where
\* matches counts the positions at which the attempt holds the oracle's
\* element, wherever they are.
C32_ClickPositionConfidence ==
    clickScored =>
        LET e == probe.Answer.seq
            a == probe.attempt.seq
        IN  IF Len(e) # Len(a)
            THEN probe.verdict = Verdict(FALSE, 20)
            ELSE probe.verdict = Verdict(e = a, (positionMatches(e, a) * 100) \div Len(e))

\* An attempt wrong at the first position and right at the second has been
\* scored (false, 50).
C32_Witness ==
    /\ clickScored
    /\ probe.Answer.seq = <<"t1", "t2">>
    /\ probe.attempt.seq = <<"t3", "t2">>
    /\ probe.verdict = Verdict(FALSE, 50)
\* ------------------------------------------------------------ which locks a call holds
lockFrame == <<rlVars, secVars, capVars, behVars, wsVars, sessions, sessLast, srv, bal, gen, repo>>
lockFrameNoClock == <<impl, redisCfg, redisUp, limit, window, mu, localLimits, optLimits,
                      redisCounters, redisZ, pc, fr, calls, secVars, capVars, behVars,
                      wsVars, sessions, sessLast, srv, bal, gen, repo>>

\* The goroutines calling into the security service.
LockCallers == {"a", "b"}

\* The mutexes: SecurityService.mu, RateLimiter.mu, IPBlocker.mu, BotDetector.mu.
Mutexes == {"service", "rateLimiter", "ipBlocker", "botDetector"}

Acq(m, mode) == [do |-> "acquire", mutex |-> m, mode |-> mode]
Rel(m) == [do |-> "release", mutex |-> m, mode |-> ""]

\* The lock operations of a call, in program order, local state only
\* (rl.redis == nil, ib.redis == nil).
\*   CheckRequest  security_service.go:78-165, the path of an erroneous
\*                 request that ends blocked
\*   GetStats      security_service.go:192-218
\*   Cleanup       security_service.go:221-230
\*   BlockIP       security_service.go:168-179
LockProgram(op) ==
    CASE op = "CheckRequest" ->
            <<Acq("service", "w"), Rel("service"),          \* 79-81
              Acq("ipBlocker", "r"), Rel("ipBlocker"),      \* 91   IsBlocked
              Acq("rateLimiter", "w"), Rel("rateLimiter"),  \* 106  Allow
              Acq("botDetector", "w"), Rel("botDetector"),  \* 121  AnalyzeRequest
              Acq("ipBlocker", "w"), Rel("ipBlocker"),      \* 146  RecordFailedAttempt
              Acq("ipBlocker", "r"), Rel("ipBlocker"),      \* 149  IsBlocked
              Acq("service", "w"), Rel("service")>>         \* 157-159
      [] op = "GetStats" ->
            <<Acq("service", "r"),                          \* 193, released by defer
              Acq("rateLimiter", "r"), Rel("rateLimiter"),  \* 209
              Acq("ipBlocker", "r"), Rel("ipBlocker"),      \* 210
              Acq("botDetector", "r"), Rel("botDetector"),  \* 211
              Rel("service")>>                              \* 194
      [] op = "Cleanup" ->
            <<Acq("rateLimiter", "w"), Rel("rateLimiter"),
              Acq("ipBlocker", "w"), Rel("ipBlocker"),
              Acq("botDetector", "w"), Rel("botDetector")>>
      [] op = "BlockIP" ->
            <<Acq("ipBlocker", "w"), Rel("ipBlocker"),      \* 169
              Acq("service", "w"), Rel("service")>>         \* 174-176

ServiceCalls == {"CheckRequest", "GetStats", "Cleanup", "BlockIP"}

NewLocks ==
    [state |-> "run",
     mx |-> [m \in Mutexes |-> [writer |-> NoOwner, readers |-> {}]],
     op |-> [g \in LockCallers |-> "none"],
     at |-> [g \in LockCallers |-> 0]]

\* the mutexes g holds, for reading or for writing
heldBy(l, g) == {m \in Mutexes : l.mx[m].writer = g \/ g \in l.mx[m].readers}

\* the lock operation g is about to execute
nextOp(l, g) == LockProgram(l.op[g])[l.at[g] + 1]

BeginCall(g, op) ==
    /\ locks.state = "run"
    /\ locks.op[g] = "none"
    /\ locks' = [locks EXCEPT !.op[g] = op, !.at[g] = 0]
    /\ UNCHANGED lockFrame

\* sync.RWMutex Lock / RLock
AcquireLock(g) ==
    /\ locks.state = "run"
    /\ locks.op[g] # "none"
    /\ locks.at[g] < Len(LockProgram(locks.op[g]))
    /\ LET o == nextOp(locks, g)
           m == locks.mx[o.mutex]
       IN  /\ o.do = "acquire"
           /\ m.writer = NoOwner
           /\ o.mode = "w" => m.readers = {}
           /\ locks' = [locks EXCEPT
                           !.mx[o.mutex] = IF o.mode = "w"
                                           THEN [@ EXCEPT !.writer = g]
                                           ELSE [@ EXCEPT !.readers = @ \cup {g}],
                           !.at[g] = @ + 1]
    /\ UNCHANGED lockFrame

\* sync.RWMutex Unlock / RUnlock
ReleaseLock(g) ==
    /\ locks.state = "run"
    /\ locks.op[g] # "none"
    /\ locks.at[g] < Len(LockProgram(locks.op[g]))
    /\ LET o == nextOp(locks, g)
       IN  /\ o.do = "release"
           /\ locks' = [locks EXCEPT
                           !.mx[o.mutex] = [writer |-> IF @.writer = g THEN NoOwner ELSE @.writer,
                                            readers |-> @.readers \ {g}],
                           !.at[g] = @ + 1]
    /\ UNCHANGED lockFrame

EndCall(g) ==
    /\ locks.state = "run"
    /\ locks.op[g] # "none"
    /\ locks.at[g] = Len(LockProgram(locks.op[g]))
    /\ locks' = [locks EXCEPT !.op[g] = "none", !.at[g] = 0]
    /\ UNCHANGED lockFrame

InitLocks ==
    /\ now = 0
    /\ IdleCore
    /\ IdleCaptcha
    /\ IdleSessions /\ IdleServer /\ IdleBalancer /\ IdleGen /\ IdleRepo
    /\ locks = NewLocks

NextLocks ==
    \/ \E g \in LockCallers, op \in ServiceCalls : BeginCall(g, op)
    \/ \E g \in LockCallers : AcquireLock(g)
    \/ \E g \in LockCallers : ReleaseLock(g)
    \/ \E g \in LockCallers : EndCall(g)

\* Two goroutines calling the security service, lock by lock.
SpecLocks == InitLocks /\ [][NextLocks]_vars

\* C33: no call holds the locks of two subsystems at the same time.
C33_OneLockAtATime ==
    locks.state = "run" =>
        \A g \in LockCallers : Cardinality(heldBy(locks, g)) <= 1

\* The calls other than GetStats hold one lock at a time.
OneLockOutsideGetStats ==
    locks.state = "run" =>
        \A g \in LockCallers :
            locks.op[g] # "GetStats" => Cardinality(heldBy(locks, g)) <= 1
\* ------------------------------------------------------------ the block map under its mutex
\* How many hours the clock of the blocker's callers runs.
MaxBlockerHours == 2

\* The goroutines calling into the IP blocker.
BlockerCallers == {"a", "b"}
BlockerWrites == {"BlockIP", "UnblockIP", "RecordFailedAttempt"}

NoMapWrite == [by |-> "none", op |-> "", mode |-> "", readers |-> {}]

\* NewIPBlocker(nil) (rate_limiter.go:161-167) with the holders of ib.mu and
\* the position of each caller; wrote is the last modification of
\* ib.localBlocks: who made it, in which call, holding ib.mu how, and who
\* else held it.
NewBlockerRun ==
    [state |-> "blocker",
     s |-> [blocks |-> EmptyMap, attempts |-> EmptyMap,
            rBlocks |-> EmptyMap, rAttempts |-> EmptyMap],
     writer |-> NoOwner, readers |-> {},
     op |-> [g \in BlockerCallers |-> "none"],
     ip |-> [g \in BlockerCallers |-> "none"],
     wrote |-> NoMapWrite]

\* how g holds ib.mu
modeOf(l, g) == IF l.writer = g THEN "w" ELSE IF g \in l.readers THEN "r" ELSE ""

mapWrite(l, g, s1) ==
    IF s1.blocks # l.s.blocks
    THEN [by |-> g, op |-> l.op[g], mode |-> modeOf(l, g), readers |-> l.readers \ {g}]
    ELSE NoMapWrite

\* rate_limiter.go:181-182  IsBlocked: ib.mu.RLock()
IsBlockedEnters(g, ip) ==
    /\ locks.state = "blocker"
    /\ locks.op[g] = "none"
    /\ locks.writer = NoOwner
    /\ locks' = [locks EXCEPT !.op[g] = "IsBlocked", !.ip[g] = ip,
                              !.readers = @ \cup {g}, !.wrote = NoMapWrite]
    /\ UNCHANGED <<now, lockFrameNoClock>>

\* rate_limiter.go:184-197  the lookup, the delete of an expired record, the
\* deferred RUnlock
IsBlockedReturns(g) ==
    /\ locks.state = "blocker"
    /\ locks.op[g] = "IsBlocked"
    /\ LET r == IsBlocked(locks.s, locks.ip[g], now)
       IN  locks' = [locks EXCEPT !.s = r.s, !.op[g] = "none", !.ip[g] = "none",
                                  !.readers = @ \ {g},
                                  !.wrote = mapWrite(locks, g, r.s)]
    /\ UNCHANGED <<now, lockFrameNoClock>>

\* rate_limiter.go:213-214, 258-259, 276-277  ib.mu.Lock()
BlockerWriteEnters(g, op, ip) ==
    /\ locks.state = "blocker"
    /\ locks.op[g] = "none"
    /\ locks.writer = NoOwner /\ locks.readers = {}
    /\ op = "RecordFailedAttempt" => attemptCount(locks.s, ip, now) < BlockThreshold
    /\ locks' = [locks EXCEPT !.op[g] = op, !.ip[g] = ip, !.writer = g,
                              !.wrote = NoMapWrite]
    /\ UNCHANGED <<now, lockFrameNoClock>>

\* rate_limiter.go:216-236, 261-262, 279-281  the body of the call and the
\* deferred Unlock
BlockerWriteReturns(g, dur) ==
    /\ locks.state = "blocker"
    /\ locks.op[g] \in BlockerWrites
    /\ locks.op[g] # "BlockIP" => dur = Hour
    /\ LET ip == locks.ip[g]
           s1 == CASE locks.op[g] = "BlockIP" ->
                        blockerBlockIP(locks.s, ip, "manual", dur, now)
                   [] locks.op[g] = "UnblockIP" -> blockerUnblockIP(locks.s, ip)
                   [] locks.op[g] = "RecordFailedAttempt" ->
                        RecordFailedAttempt(locks.s, ip, "Request error", now)
       IN  locks' = [locks EXCEPT !.s = s1, !.op[g] = "none", !.ip[g] = "none",
                                  !.writer = NoOwner,
                                  !.wrote = mapWrite(locks, g, s1)]
    /\ UNCHANGED <<now, lockFrameNoClock>>

\* An hour passes.
TickBlocker ==
    /\ locks.state = "blocker"
    /\ now < MaxBlockerHours * Hour
    /\ now' = now + Hour
    /\ locks' = [locks EXCEPT !.wrote = NoMapWrite]
    /\ UNCHANGED lockFrameNoClock

InitBlocker ==
    /\ now = 0
    /\ IdleCore
    /\ IdleCaptcha
    /\ IdleSessions /\ IdleServer /\ IdleBalancer /\ IdleGen /\ IdleRepo
    /\ locks = NewBlockerRun

NextBlocker ==
    \/ \E g \in BlockerCallers, ip \in SecIPs : IsBlockedEnters(g, ip)
    \/ \E g \in BlockerCallers : IsBlockedReturns(g)
    \/ \E g \in BlockerCallers, op \in BlockerWrites, ip \in SecIPs :
          BlockerWriteEnters(g, op, ip)
    \/ \E g \in BlockerCallers, dur \in BlockDurations : BlockerWriteReturns(g, dur)
    \/ TickBlocker

\* The IP blocker without an external store, under concurrent callers.
SpecBlocker == InitBlocker /\ [][NextBlocker]_vars

\* C34: the block map is modified only by a caller that holds ib.mu
\* exclusively.
C34_BlockMapWrittenExclusively ==
    locks.state = "blocker" =>
        (locks.wrote.by # "none" => locks.wrote.mode = "w")

\* The writing calls modify the block map holding the write lock.
WritersHoldWriteLock ==
    locks.state = "blocker" =>
        (locks.wrote.op \in BlockerWrites => locks.wrote.mode = "w")

\* An IsBlocked call deleted an expired record while another IsBlocked call
\* held the read lock too.
DeleteUnderSharedLock ==
    /\ locks.state = "blocker"
    /\ locks.wrote.op = "IsBlocked"
    /\ locks.wrote.readers # {}
\* ------------------------------------------------------------ what UnblockIP leaves behind
\* The step is a call UnblockIP(ip) that removed something.
unblocked(ip) ==
    /\ secState' = blockerUnblockIP(secState, ip)
    /\ secState' # secState
    /\ UNCHANGED <<now, last>>

\* C35: after UnblockIP(ip) the address is not blocked and its failure
\* allowance is reset: no failure recorded before the call counts towards
\* the next block, with the blocker's state local or in the external store.
C35_UnblockResetsAllowance ==
    [][\A ip \in SecIPs :
          unblocked(ip) =>
             /\ ~IsBlocked(secState, ip, now).blocked'
             /\ attemptCount(secState, ip, now)' = 0]_vars

\* With the blocker's state local, UnblockIP does both.
UnblockResetsLocalAllowance ==
    [][\A ip \in SecIPs :
          (unblocked(ip) /\ ~redisOK) =>
             /\ ~IsBlocked(secState, ip, now).blocked'
             /\ attemptCount(secState, ip, now)' = 0]_vars

\* With the blocker's state in the external store, UnblockIP lifts the block.
UnblockLiftsBlock ==
    [][\A ip \in SecIPs : unblocked(ip) => ~IsBlocked(secState, ip, now).blocked']_vars
\* ------------------------------------------------------------ what the limiter's cleanup evicts
\* The buckets of the limiter under test.
buckets == IF impl = "RateLimiter" THEN localLimits ELSE optLimits

\* When key k's bucket was last accessed: the latest Allow call on k that
\* reached the local limiter, accepted or denied.
lastAccess(k) ==
    LET ts == {calls[i].t : i \in {j \in 1..Len(calls) :
                                     calls[j].key = k /\ calls[j].path = "local"}}
    IN  IF ts = {} THEN 0 ELSE CHOOSE t \in ts : \A u \in ts : u <= t

\* The step is a cleanup pass that evicted a bucket.
evictionPass ==
    /\ buckets' # buckets
    /\ UNCHANGED <<now, pc, calls, mu>>

\* C36: a cleanup pass evicts exactly the buckets whose last access is older
\* than 2 * window.
C36_EvictsIdleTwoWindows ==
    [][evictionPass =>
          \A k \in DOMAIN buckets :
             (k \notin DOMAIN buckets') <=> (now - lastAccess(k) > 2 * window)]_vars

\* What the passes do evict: RateLimiter the buckets whose window started at
\* least one window ago, OptimizedRateLimiter those whose last accepted
\* request is at least two windows old.
EvictsByLastReset ==
    [][evictionPass =>
          \A k \in DOMAIN buckets :
             (k \notin DOMAIN buckets') <=>
                (now - buckets[k].LastReset >=
                    (IF impl = "RateLimiter" THEN 1 ELSE 2) * buckets[k].Window)]_vars
\* ------------------------------------------------------------ sends and closed queues
\* C37: no event is sent on a connection's Events channel after the channel
\* has been closed (a send on a closed channel is a run-time panic).
C37_NoSendOnClosedQueue ==
    ~(wsLast.op = "panic")

\* Without a sender blocked in SendEvent's select, closing a connection
\* closes its channel once and nothing is sent on it afterwards: the
\* connection leaves the map in the same critical section.
CloseWithoutBlockedSenderIsClean ==
    [][\A c \in DOMAIN connections :
          (c \notin DOMAIN connections' /\ connections[c].Waiting = {})
             => wsLast'.op = "close"]_vars
\* ------------------------------------------------------------ replies to inbound messages
\* The connection ids uuid.New() hands out, as the strings they are.
ConnIDs == <<"c1", "c2", "c3", "c4">>
connID(c) == ConnIDs[c]

\* The client_id values a connecting client may send: its own name, or the
\* id of a connection that already exists.
KnownClientIDs == ClientIDs \cup {connID(c) : c \in DOMAIN connections}

\* websocket_service.go:157-175, 177-199; websocket_integration.go:166-186
\* a message arrives on connection c: ProcessMessage sets event.ClientID to
\* the connection id and hands the event to the bus; the handler builds its
\* reply and calls BroadcastToClient(event.ClientID, reply).
InboundMessage(c) ==
    /\ Running
    /\ c \in DOMAIN connections
    /\ wsCount.events < MaxEvents
    /\ wsCount' = [wsCount EXCEPT !.events = @ + 1]
    /\ LET eventClientID == connID(c)
           reply == wsCount.events + 1
       IN  /\ connections' = BroadcastToClient(connections, eventClientID, reply)
           /\ wsLast' = [NoWsCall EXCEPT !.op = "reply", !.conn = c,
                                         !.client = eventClientID, !.ev = reply,
                                         !.at = now, !.before = connections,
                                         !.after = connections']
    /\ UNCHANGED <<now, wsFrame>>

NextReply ==
    \/ \E clientID \in KnownClientIDs : CreateConnection(clientID)
    \/ \E c \in 1..MaxConns : InboundMessage(c)
    \/ \E clientID \in ClientIDs : BroadcastToClientCall(clientID)
    \/ \E c \in 1..MaxConns : WriteEvent(c)
    \/ \E c \in 1..MaxConns : CloseConnection(c)

\* The websocket service with clients that send messages and the handlers
\* that answer them.
SpecReply == InitWS /\ [][NextReply]_vars

\* C38: the reply a handler broadcasts in response to a message is enqueued
\* on the connection the message came in on (when its queue has room).
C38_ReplyReachesSender ==
    (wsLast.op = "reply" /\ chanHasRoom(wsLast.before[wsLast.conn]))
        => wsLast.after[wsLast.conn].Submitted
              = Append(wsLast.before[wsLast.conn].Submitted, wsLast.ev)

\* Where the reply does go: to the connections whose client_id equals the
\* sender's connection id, and to no other.
ReplyGoesToNamesakes ==
    wsLast.op = "reply" =>
        \A c \in DOMAIN wsLast.before :
            wsLast.after[c] # wsLast.before[c]
                => wsLast.before[c].ClientID = connID(wsLast.conn)

\* A reply was enqueued on a connection other than the sender's.
ReplyReachedAnotherSession ==
    /\ wsLast.op = "reply"
    /\ \E c \in DOMAIN wsLast.before :
          c # wsLast.conn /\ wsLast.after[c] # wsLast.before[c]
\* ------------------------------------------------------------ attempts over the event stream
\* C39: a challenge_attempt event that carries the right answer for a stored,
\* unexpired challenge leaves the challenge solved: it no longer counts as
\* active, and later validations return (true, 100).
C39_StreamAttemptMarksSolved ==
    (/\ capLast.op = "event"
     /\ capLast.attempt
     /\ capLast.known
     /\ capLast.would.Solved
     /\ capLast.id \in DOMAIN challenges)
        => challenges[capLast.id].Solved

\* No turn of the event stream's receive loop changes the challenge store.
StreamLeavesStoreAlone ==
    [][capLast'.op = "event" /\ capLast' # capLast => challenges' = challenges]_vars
\* ------------------------------------------------------------ the lifetime of a block record
\* The block records of both stores.
blockRecords ==
    {localBlocks[ip] : ip \in DOMAIN localBlocks} \cup {redisBlocks[ip] : ip \in DOMAIN redisBlocks}

\* C40: every block record expires after it was made, a manual block asked
\* for without a duration included: it lasts the default duration.
C40_BlockExpiresAfterBlockedAt ==
    \A b \in blockRecords : b.ExpiresAt > b.BlockedAt

\* A record lasts exactly the duration its caller passed: the hour of the
\* automatic blocks and of the HTTP handler's default, or the zero of
\* SecurityMiddleware.BlockIP, which nothing replaces by a default.
BlockLastsRequestedDuration ==
    \A b \in blockRecords : b.ExpiresAt - b.BlockedAt \in BlockDurations \cup {Hour}

====
